---- MODULE Spec2Model ----
(***************************************************************************)
(* Gamification core of the community directory: the achievement / point   *)
(* ledger tables, GamificationService (service/src/services/               *)
(* gamification-service.ts) and the seed script that fills the tables.     *)
(*                                                                         *)
(* Every `await` of the service is a point where another request may run,  *)
(* so each database round trip of a handler is one action of the model.    *)
(***************************************************************************)
EXTENDS Integers, Sequences, FiniteSets, TLC

(***************************************************************************)
(* Bounds of the model                                                     *)
(***************************************************************************)
MaxUsers == 2        \* user ids 1..MaxUsers
MaxKeys == 2         \* longest achievementKeys array of one request
MaxCalls == 2        \* requests started in one behaviour
MaxManual == 2       \* ledger rows that reference no achievement
MaxLevels == 2       \* levelNumbers 1..MaxLevels
MaxContacts == 3     \* contactInformation rows of one person
MaxInterests == 5    \* interests rows of one person
MaxGroups == 2       \* groupMemberships rows of one person
MaxDeleted == 1      \* rows of one relation of a person that are marked deleted
MaxChecks == 4       \* calls of checkEmailRateLimit in one behaviour
MaxLate == 1         \* milliseconds the clock runs on after a sign-in link expired

(***************************************************************************)
(* Program data                                                            *)
(***************************************************************************)
\* the absent row of a findUnique / find
NULL == [null |-> TRUE]

Users == 1..MaxUsers
Procs == {"req1", "req2"}

\* achievementsData: the two seeded keys the model follows
Keys == {"first_person_created", "group_admin"}

SeedPoints(k) == IF k = "first_person_created" THEN 20 ELSE 30

\* levelsData thresholds of levels 1..3
Thresholds == {0, 50, 100}

\* signed deltas of ledger rows that reference no achievement
Deltas == {-30, 29, 50}

VARIABLES
    achievements,       \* table achievements: rows [id, key, isActive, points]
    userAchievements,   \* table user_achievements, in insertion (id) order
    pointTransactions,  \* table point_transactions, in insertion (id) order
    levels,             \* table levels: rows [levelNumber, pointsRequired]
    call,               \* per request: position and locals of checkAndAwardMultiple
    ncalls,             \* number of requests started so far
    returned,           \* the pairs <<user, key>> for which an awardAchievement call
                        \* on an active achievement has returned or thrown
    stats,              \* position and locals of a getUserStats call
    caller,             \* per request: the trigger check or route that made the call
    persons,            \* table persons with the rows each person includes:
                        \* contactInformation, interests, groupMemberships
    responses,          \* the requests POST /achievements/check has received, in
                        \* order, each with the response sent (status 0: none yet)
    attempts,           \* rate-limit.ts: the Map from address to its recent attempts
    now,                \* Date.now() at the latest call, in ms since the process started
    checks,             \* the calls of checkEmailRateLimit so far: [email, at, allowed]
    users,              \* table users: rows [id, email, verificationToken, deleted]
    authenticationAttempts,  \* table authentication_attempts, in insertion order:
                        \* rows [email, token, expiresAt, used]
    verify,             \* per GET /verify-magic-link request: position and locals
    answers             \* the distinct responses of send-magic-link and
                        \* resend-verification so far: [route, email, success, message]

\* the state outside the gamification tables
limiter == <<attempts, now, checks>>

auth == <<users, authenticationAttempts, verify, answers>>

outside == <<persons, responses, limiter, auth>>

vars == <<achievements, userAchievements, pointTransactions, levels, call, ncalls, returned,
          stats, caller, outside>>

(***************************************************************************)
(* Tables and queries                                                      *)
(***************************************************************************)
\* prisma.achievement.findUnique({ where: { key } })
FindAchievement(ach, k) ==
    IF \E a \in ach : a.key = k THEN CHOOSE a \in ach : a.key = k ELSE NULL

\* the two parts of the compound key handed over in the wrong order
FindUserAchievement_KeySwapped(uas, u, aid) ==
    \E i \in 1..Len(uas) : uas[i].userId = aid /\ uas[i].achievementId = u

\* prisma.userAchievement.findUnique({ where: { userId_achievementId } })
FindUserAchievement(uas, u, aid) ==
    \E i \in 1..Len(uas) : uas[i].userId = u /\ uas[i].achievementId = aid

RECURSIVE SeqSum(_)
SeqSum(s) == IF s = <<>> THEN 0 ELSE Head(s) + SeqSum(Tail(s))

RECURSIVE MapPoints(_)
MapPoints(rows) == IF rows = <<>> THEN <<>> ELSE <<Head(rows).points>> \o MapPoints(Tail(rows))

Max(a, b) == IF a >= b THEN a ELSE b
Min(a, b) == IF a <= b THEN a ELSE b

\* prisma.pointTransaction.findMany({ where: { userId } })
FindTransactions(pts, u) == SelectSeq(pts, LAMBDA t : t.userId = u)

\* getUserPoints without the where clause
getUserPoints_AllUsers(pts, u) == Max(0, SeqSum(MapPoints(pts)))

getUserPoints(pts, u) == Max(0, SeqSum(MapPoints(FindTransactions(pts, u))))

\* number of rows of a table that satisfy Test
CountRows(rows, Test(_)) == Len(SelectSeq(rows, Test))

UACount(uas, u, aid) == CountRows(uas, LAMBDA r : r.userId = u /\ r.achievementId = aid)
PTCount(pts, u, aid) == CountRows(pts, LAMBDA r : r.userId = u /\ r.achievementId = aid)

(***************************************************************************)
(* prisma.$transaction([...]): the statements run in order inside one      *)
(* database transaction; the first failing statement rolls everything back *)
(* and the call rejects.                                                    *)
(***************************************************************************)
\* the index without UNIQUE: every insert is accepted
UniqueUserAchievement_NotUnique(uas, u, aid) == TRUE

\* unique index user_achievements_userId_achievementId_key
UniqueUserAchievement(uas, u, aid) == ~FindUserAchievement(uas, u, aid)

\* the ledger kept as one running row per user: the create replaces the
\* user's earlier rows
ApplyStatement_SingleLedgerRow(db, st) ==
    IF ~db.ok THEN db
    ELSE IF st.op = "userAchievement.create"
    THEN IF UniqueUserAchievement(db.ua, st.data.userId, st.data.achievementId)
         THEN [db EXCEPT !.ua = Append(db.ua, st.data)]
         ELSE [db EXCEPT !.ok = FALSE]
    ELSE [db EXCEPT !.pt = Append(SelectSeq(db.pt, LAMBDA r : r.userId # st.data.userId),
                                  st.data)]

\* one statement applied to the pair of tables db = [ua, pt, ok]
ApplyStatement(db, st) ==
    IF ~db.ok THEN db
    ELSE IF st.op = "userAchievement.create"
    THEN IF UniqueUserAchievement(db.ua, st.data.userId, st.data.achievementId)
         THEN [db EXCEPT !.ua = Append(db.ua, st.data)]
         ELSE [db EXCEPT !.ok = FALSE]
    ELSE [db EXCEPT !.pt = Append(db.pt, st.data)]

RECURSIVE RunStatements(_, _)
RunStatements(db, stmts) ==
    IF stmts = <<>> THEN db
    ELSE RunStatements(ApplyStatement(db, Head(stmts)), Tail(stmts))

\* the creates issued one by one outside a transaction: a failing statement
\* is lost, the others stay
RECURSIVE RunEach(_, _)
RunEach(db, stmts) ==
    IF stmts = <<>> THEN db
    ELSE LET one == ApplyStatement([db EXCEPT !.ok = TRUE], Head(stmts))
         IN  RunEach([one EXCEPT !.ok = db.ok /\ one.ok], Tail(stmts))

Transaction_NoRollback(uas, pts, stmts) ==
    RunEach([ua |-> uas, pt |-> pts, ok |-> TRUE], stmts)

Transaction(uas, pts, stmts) ==
    LET out == RunStatements([ua |-> uas, pt |-> pts, ok |-> TRUE], stmts)
    IN  IF out.ok THEN out ELSE [ua |-> uas, pt |-> pts, ok |-> FALSE]

\* the two creates of awardAchievement
AwardStatements(u, a) ==
    << [op |-> "userAchievement.create",
        data |-> [userId |-> u, achievementId |-> a.id]],
       [op |-> "pointTransaction.create",
        data |-> [userId |-> u, achievementId |-> a.id, points |-> a.points]] >>

(***************************************************************************)
(* Math.floor((a / b) * 100) on JavaScript numbers.  a and b are integers, *)
(* but `/` and `*` are IEEE-754 binary64 operations: the quotient is       *)
(* rounded to 53 significant bits (round to nearest, ties to even) before  *)
(* it is multiplied by 100, and the product is rounded again.              *)
(*                                                                         *)
(* A positive double is [h, m, l, e]: its 53-bit significand is            *)
(* h * 2^36 + m * 2^18 + l (h has 17 bits, the first one set; m and l have *)
(* 18) and e is the power of two of the first bit.  Three limbs keep every *)
(* intermediate below 2^31 as long as |a| and |b| are below 2^13.          *)
(***************************************************************************)
RECURSIVE Pow2(_)
Pow2(n) == IF n = 0 THEN 1 ELSE 2 * Pow2(n - 1)

Limb == Pow2(18)
TopBit == Pow2(16)     \* the first bit of h

\* the next double above x (the significand plus one unit in the last place)
RoundUp(x) ==
    IF x.l + 1 < Limb THEN [x EXCEPT !.l = x.l + 1]
    ELSE IF x.m + 1 < Limb THEN [x EXCEPT !.l = 0, !.m = x.m + 1]
    ELSE IF x.h + 1 < 2 * TopBit THEN [x EXCEPT !.l = 0, !.m = 0, !.h = x.h + 1]
    ELSE [h |-> TopBit, m |-> 0, l |-> 0, e |-> x.e + 1]

\* the power of two of the first bit of a / b (a, b > 0)
RECURSIVE ExpUp(_, _)
ExpUp(a, b) == IF a >= 2 * b THEN 1 + ExpUp(a, 2 * b) ELSE 0

RECURSIVE ExpDown(_, _)
ExpDown(a, b) == IF a < b THEN 1 + ExpDown(2 * a, b) ELSE 0

\* a / b for integers a, b > 0: schoolbook division of n / d in [1, 2), 16 +
\* 18 + 18 quotient bits after the first, then rounding on the remainder
DoubleDiv(a, b) ==
    LET e  == IF a >= b THEN ExpUp(a, b) ELSE 0 - ExpDown(a, b)
        n  == IF e >= 0 THEN a ELSE a * Pow2(0 - e)
        d  == IF e >= 0 THEN b * Pow2(e) ELSE b
        r0 == n - d
        h  == TopBit + (r0 * TopBit) \div d
        r1 == (r0 * TopBit) % d
        m  == (r1 * Limb) \div d
        r2 == (r1 * Limb) % d
        l  == (r2 * Limb) \div d
        r3 == (r2 * Limb) % d
        x  == [h |-> h, m |-> m, l |-> l, e |-> e]
    IN  IF 2 * r3 > d \/ (2 * r3 = d /\ l % 2 = 1) THEN RoundUp(x) ELSE x

\* x * 100 for a positive double x: the exact product has 59 or 60 bits, of
\* which the lowest 6 or 7 are rounded away
DoubleTimes100(x) ==
    LET pl   == 100 * x.l
        pm   == 100 * x.m + pl \div Limb
        ph   == 100 * x.h + pm \div Limb
        low  == pl % Limb
        mid  == pm % Limb
        d    == IF ph >= 128 * TopBit THEN 7 ELSE 6
        cut  == Pow2(d)
        gone == low % cut
        y    == [h |-> ph \div cut,
                 m |-> mid \div cut + (ph % cut) * (Limb \div cut),
                 l |-> low \div cut + (mid % cut) * (Limb \div cut),
                 e |-> x.e + d]
        half == cut \div 2
    IN  IF gone > half \/ (gone = half /\ y.l % 2 = 1) THEN RoundUp(y) ELSE y

\* the integer part of a positive double below 2^30, and whether a
\* fraction is left
IntPart(x) ==
    IF x.e < 0 THEN 0
    ELSE IF x.e <= 16 THEN x.h \div Pow2(16 - x.e)
    ELSE x.h * Pow2(x.e - 16) + x.m \div Pow2(34 - x.e)

HasFraction(x) ==
    IF x.e < 0 THEN TRUE
    ELSE IF x.e <= 16 THEN x.h % Pow2(16 - x.e) # 0 \/ x.m # 0 \/ x.l # 0
    ELSE x.m % Pow2(34 - x.e) # 0 \/ x.l # 0

\* what stands for NaN: a value that is no percentage and equals no number
\* the model computes
NaN == 0 - Pow2(30) - 1

\* what stands for +Infinity: larger than every number it is compared with
Infinity == Pow2(30)

\* Math.floor((a / b) * 100)
FloorPercent(a, b) ==
    IF b = 0
    THEN IF a = 0 THEN NaN ELSE IF a > 0 THEN Infinity ELSE 0 - Infinity
    ELSE IF a = 0 THEN 0
    ELSE LET abs(x) == IF x < 0 THEN 0 - x ELSE x
             p == DoubleTimes100(DoubleDiv(abs(a), abs(b)))
         IN  IF (a > 0) = (b > 0)
             THEN IntPart(p)
             ELSE 0 - (IntPart(p) + (IF HasFraction(p) THEN 1 ELSE 0))

(***************************************************************************)
(* Level queries                                                           *)
(***************************************************************************)
\* findMany({ orderBy }): the rows in any order that respects the ordering;
\* rows with equal keys come in an order the database chooses
Orderings(rows, Before(_, _)) ==
    { s \in [1..Cardinality(rows) -> rows] :
        /\ \A i, j \in 1..Cardinality(rows) : i # j => s[i] # s[j]
        /\ \A i, j \in 1..Cardinality(rows) : i < j => ~Before(s[j], s[i]) }

\* Array.prototype.find: the first element that passes the test
Find(s, Test(_)) ==
    IF \E i \in 1..Len(s) : Test(s[i])
    THEN s[CHOOSE i \in 1..Len(s) : Test(s[i]) /\ \A j \in 1..(i - 1) : ~Test(s[j])]
    ELSE NULL

Desc(x, y) == x.pointsRequired > y.pointsRequired
Asc(x, y) == x.pointsRequired < y.pointsRequired

\* getUserLevel reading the levels in ascending order
getUserLevel_Ascending(lv, totalPoints) ==
    { Find(s, LAMBDA level : totalPoints >= level.pointsRequired) : s \in Orderings(lv, Asc) }

\* getUserLevel after its points query: the results the levels query allows
getUserLevel(lv, totalPoints) ==
    { Find(s, LAMBDA level : totalPoints >= level.pointsRequired) : s \in Orderings(lv, Desc) }

\* getNextLevel reading the levels in descending order
getNextLevel_Descending(lv, totalPoints) ==
    { Find(s, LAMBDA level : level.pointsRequired > totalPoints) : s \in Orderings(lv, Desc) }

\* getNextLevel comparing with >= instead of >
getNextLevel_Inclusive(lv, totalPoints) ==
    { Find(s, LAMBDA level : level.pointsRequired >= totalPoints) : s \in Orderings(lv, Asc) }

\* getNextLevel after its points query
getNextLevel(lv, totalPoints) ==
    { Find(s, LAMBDA level : level.pointsRequired > totalPoints) : s \in Orderings(lv, Asc) }

\* Math.min(100, Math.max(0, x)): comparisons with NaN are false and the
\* result is NaN
Clamp(x) == IF x = NaN THEN NaN ELSE Min(100, Max(0, x))

\* the divisor of the progress computation, 1 standing for no division
ProgressDivisor(currentLevel, nextLevel) ==
    IF nextLevel # NULL /\ currentLevel # NULL
    THEN nextLevel.pointsRequired - currentLevel.pointsRequired
    ELSE IF nextLevel # NULL THEN nextLevel.pointsRequired
    ELSE 1

\* the progress computation of getUserStats, before the clamp
ProgressPercent(totalPoints, currentLevel, nextLevel) ==
    IF nextLevel # NULL /\ currentLevel # NULL
    THEN FloorPercent(totalPoints - currentLevel.pointsRequired,
                      nextLevel.pointsRequired - currentLevel.pointsRequired)
    ELSE IF nextLevel # NULL
    THEN FloorPercent(totalPoints, nextLevel.pointsRequired)
    ELSE 100

(***************************************************************************)
(* Requests                                                                *)
(***************************************************************************)
\* the caller of a request that came through no trigger check and no route
Direct == [kind |-> "direct", personId |-> 0]

\* a request slot: position and locals of checkAndAwardMultiple and of the
\* awardAchievement call it is in.  results is history: what each
\* awardAchievement call of the request returned.
Idle == [pc |-> "idle", userId |-> 0, keys |-> <<>>, i |-> 0, awarded |-> <<>>,
         achievement |-> NULL, results |-> <<>>]

KeyLists == UNION {[1..n -> Keys] : n \in 0..MaxKeys}

InFlight(p) == call[p].pc \notin {"idle", "done", "error"}

CurKey(p) == call[p].keys[call[p].i]

ActiveKey(k) ==
    LET a == FindAchievement(achievements, k) IN a # NULL /\ a.isActive

Earned(u, k) ==
    LET a == FindAchievement(achievements, k)
    IN  a # NULL /\ FindUserAchievement(userAchievements, u, a.id)

\* k is an existing, active achievement that u has not earned
Eligible(u, k) == ActiveKey(k) /\ ~Earned(u, k)

\* the loop pushing the key whatever awardAchievement returned
NextKey_PushAlways(c, ret) ==
    LET d == [c EXCEPT !.awarded = Append(c.awarded, c.keys[c.i]), !.achievement = NULL,
                       !.results = Append(c.results, ret)]
    IN  IF c.i = Len(c.keys)
        THEN [d EXCEPT !.pc = "done"]
        ELSE [d EXCEPT !.pc = "hasAchievement", !.i = c.i + 1]

\* awardAchievement has returned ret: the for loop of checkAndAwardMultiple
\* pushes the key when it got an achievement, then moves on or returns
NextKey(c, ret) ==
    LET aw == IF ret = "achievement" THEN Append(c.awarded, c.keys[c.i]) ELSE c.awarded
        d  == [c EXCEPT !.awarded = aw, !.achievement = NULL,
                        !.results = Append(c.results, ret)]
    IN  IF c.i = Len(c.keys)
        THEN [d EXCEPT !.pc = "done"]
        ELSE [d EXCEPT !.pc = "hasAchievement", !.i = c.i + 1]

\* a loop that catches what awardAchievement throws and goes on
Reject_Continue(c) == NextKey(c, "error")

\* awardAchievement has thrown: checkAndAwardMultiple rejects
Reject(c) == [c EXCEPT !.pc = "error", !.results = Append(c.results, "error")]

\* the call of awardAchievement for the current key has ended
Record(p) ==
    IF ActiveKey(CurKey(p))
    THEN returned \cup {<<call[p].userId, CurKey(p)>>}
    ELSE returned

(***************************************************************************)
(* Initial state: the tables as seeding and administration may have left   *)
(* them, no award made yet                                                 *)
(***************************************************************************)
\* SERIAL ids of the achievements present at start
InitId(k) == IF k = "first_person_created" THEN 1 ELSE 2

AchievementTables ==
    { { [id |-> InitId(k), key |-> k, isActive |-> f[k] = "active", points |-> SeedPoints(k)]
          : k \in {x \in Keys : f[x] # "missing"} }
      : f \in [Keys -> {"missing", "active", "inactive"}] }

\* levelsData: pointsRequired of the seeded level n
LevelsData(n) == IF n = 1 THEN 0 ELSE IF n = 2 THEN 50 ELSE 50 * (n - 1)

SeedLevels == { [levelNumber |-> n, pointsRequired |-> LevelsData(n)] : n \in 1..MaxLevels }

VerifyProcs == {"v1", "v2"}

\* locals of a GET /verify-magic-link request; status 0: no response yet
VerifyIdle == [pc |-> "idle", token |-> 0, at |-> 0, count |-> 0, email |-> <<>>,
               userId |-> 0, status |-> 0]

\* no user, no sign-in link
NoAccounts ==
    /\ users = {}
    /\ authenticationAttempts = <<>>

\* locals of getUserStats; levelPoints and nextPoints are the totalPoints
\* that getUserLevel and getNextLevel read for themselves
StatsIdle == [pc |-> "idle", userId |-> 0, totalPoints |-> 0, levelPoints |-> 0,
              currentLevel |-> NULL, nextPoints |-> 0, nextLevel |-> NULL,
              achievementCount |-> 0, completedAchievementCount |-> 0,
              progressPercent |-> 0]

\* no request made yet, the clock at 0
NoRequests ==
    /\ userAchievements = <<>>
    /\ call = [p \in Procs |-> Idle]
    /\ ncalls = 0
    /\ returned = {}
    /\ stats = StatsIdle
    /\ caller = [p \in Procs |-> Direct]
    /\ responses = <<>>
    /\ now = 0
    /\ checks = <<>>
    /\ verify = [r \in VerifyProcs |-> VerifyIdle]
    /\ answers = {}

\* no request made yet and const attempts = new Map()
NoCalls ==
    /\ NoRequests
    /\ attempts = <<>>

\* any state of the achievements table, the seeded levels, an empty ledger
Init ==
    /\ achievements \in AchievementTables
    /\ levels = SeedLevels
    /\ pointTransactions = <<>>
    /\ persons = {}
    /\ NoAccounts
    /\ NoCalls

(***************************************************************************)
(* seedGamification: creates the achievements that are missing             *)
(***************************************************************************)
\* the SERIAL id column: one more than the largest id handed out
NextId(ach) == IF ach = {} THEN 1 ELSE 1 + (CHOOSE n \in {a.id : a \in ach} : \A a \in ach : a.id <= n)

SeedAchievement(k) ==
    /\ FindAchievement(achievements, k) = NULL
    /\ achievements' = achievements \cup
           {[id |-> NextId(achievements), key |-> k, isActive |-> TRUE, points |-> SeedPoints(k)]}
    /\ UNCHANGED <<userAchievements, pointTransactions, levels, call, ncalls, returned, stats, caller, outside>>

(***************************************************************************)
(* checkAndAwardMultiple(userId, achievementKeys) and, inside its loop,    *)
(* awardAchievement(userId, key)                                           *)
(***************************************************************************)
\* a caller of checkAndAwardMultiple (a trigger check, the achievements/check
\* route) arrives in a free slot.  Users are numbered in the order of their
\* first request: the n-th request comes from one of the users 1..n.
Begin(p, u, keys) ==
    /\ ~InFlight(p)
    /\ ncalls < MaxCalls
    /\ u <= ncalls + 1
    /\ ncalls' = ncalls + 1
    /\ call' = [call EXCEPT ![p] =
                  [Idle EXCEPT !.pc = IF keys = <<>> THEN "done" ELSE "hasAchievement",
                               !.userId = u, !.keys = keys,
                               !.i = IF keys = <<>> THEN 0 ELSE 1]]
    /\ UNCHANGED <<achievements, userAchievements, pointTransactions, levels, returned, stats,
                   outside>>

\* checkAndAwardMultiple called directly
Start(p, u, keys) ==
    /\ Begin(p, u, keys)
    /\ caller' = [caller EXCEPT ![p] = Direct]

\* hasAchievement, first query: the achievement of that key
HasAchievementStep(p) ==
    /\ call[p].pc = "hasAchievement"
    /\ LET c == call[p]
           a == FindAchievement(achievements, CurKey(p))
       IN  call' = [call EXCEPT ![p] =
                      [c EXCEPT !.pc = IF a = NULL THEN "findAchievement"
                                       ELSE "hasUserAchievement",
                                !.achievement = a]]
    /\ UNCHANGED <<achievements, userAchievements, pointTransactions, levels, ncalls, returned, stats, caller, outside>>

\* awardAchievement without its already-earned check
HasUserAchievementStep_NoCheck(p) ==
    /\ call[p].pc = "hasUserAchievement"
    /\ call' = [call EXCEPT ![p] = [call[p] EXCEPT !.pc = "findAchievement",
                                                   !.achievement = NULL]]
    /\ UNCHANGED <<achievements, userAchievements, pointTransactions, levels, ncalls, returned, stats, caller, outside>>

\* hasAchievement, second query: the user's row for that achievement;
\* awardAchievement returns null when it exists
HasUserAchievementStep(p) ==
    /\ call[p].pc = "hasUserAchievement"
    /\ LET c == call[p]
       IN  IF FindUserAchievement(userAchievements, c.userId, c.achievement.id)
           THEN /\ call' = [call EXCEPT ![p] = NextKey(c, "null")]
                /\ returned' = Record(p)
           ELSE /\ call' = [call EXCEPT ![p] = [c EXCEPT !.pc = "findAchievement",
                                                         !.achievement = NULL]]
                /\ returned' = returned
    /\ UNCHANGED <<achievements, userAchievements, pointTransactions, levels, ncalls, stats, caller, outside>>

\* awardAchievement without the isActive test
FindAchievementStep_NoActiveTest(p) ==
    /\ call[p].pc = "findAchievement"
    /\ LET c == call[p]
           a == FindAchievement(achievements, CurKey(p))
       IN  IF a = NULL
           THEN /\ call' = [call EXCEPT ![p] = NextKey(c, "null")]
                /\ returned' = Record(p)
           ELSE /\ call' = [call EXCEPT ![p] = [c EXCEPT !.pc = "transaction",
                                                         !.achievement = a]]
                /\ returned' = returned
    /\ UNCHANGED <<achievements, userAchievements, pointTransactions, levels, ncalls, stats, caller, outside>>

\* awardAchievement reads the achievement again and gives up on a missing
\* or inactive one
FindAchievementStep(p) ==
    /\ call[p].pc = "findAchievement"
    /\ LET c == call[p]
           a == FindAchievement(achievements, CurKey(p))
       IN  IF a = NULL \/ ~a.isActive
           THEN /\ call' = [call EXCEPT ![p] = NextKey(c, "null")]
                /\ returned' = Record(p)
           ELSE /\ call' = [call EXCEPT ![p] = [c EXCEPT !.pc = "transaction",
                                                         !.achievement = a]]
                /\ returned' = returned
    /\ UNCHANGED <<achievements, userAchievements, pointTransactions, levels, ncalls, stats, caller, outside>>

\* awardAchievement catching the rejected transaction and returning null
TransactionStep_CatchRejection(p) ==
    /\ call[p].pc = "transaction"
    /\ LET c == call[p]
           out == Transaction(userAchievements, pointTransactions,
                              AwardStatements(c.userId, c.achievement))
       IN  /\ userAchievements' = out.ua
           /\ pointTransactions' = out.pt
           /\ call' = [call EXCEPT ![p] = NextKey(c, IF out.ok THEN "achievement" ELSE "null")]
           /\ returned' = Record(p)
    /\ UNCHANGED <<achievements, levels, ncalls, stats, caller, outside>>

\* awardAchievement writes the two rows; a rejected transaction rejects
\* awardAchievement and with it checkAndAwardMultiple
TransactionStep(p) ==
    /\ call[p].pc = "transaction"
    /\ LET c == call[p]
           out == Transaction(userAchievements, pointTransactions,
                              AwardStatements(c.userId, c.achievement))
       IN  /\ userAchievements' = out.ua
           /\ pointTransactions' = out.pt
           /\ IF out.ok
              THEN /\ call' = [call EXCEPT ![p] = NextKey(c, "achievement")]
                   /\ returned' = Record(p)
              ELSE /\ call' = [call EXCEPT ![p] = Reject(c)]
                   /\ returned' = Record(p)
    /\ UNCHANGED <<achievements, levels, ncalls, stats, caller, outside>>

\* awardGroupCreate, awardFirstPerson, ...: the helpers that call
\* awardAchievement for one key and return [key] or []; such a call is taken
\* to arrive while another request is being served
AwardHelper(p, u, k) ==
    /\ \E q \in Procs \ {p} : InFlight(q)
    /\ Start(p, u, <<k>>)

(***************************************************************************)
(* getUserStats(userId): seven queries, then the progress computation      *)
(***************************************************************************)
awardState == <<achievements, userAchievements, pointTransactions, levels, call, ncalls, returned,
                caller, outside>>

StatsStart(u) ==
    /\ stats.pc \in {"idle", "done"}
    /\ stats' = [StatsIdle EXCEPT !.pc = "getUserPoints", !.userId = u]
    /\ UNCHANGED awardState

\* const totalPoints = await this.getUserPoints(userId)
StatsPoints ==
    /\ stats.pc = "getUserPoints"
    /\ stats' = [stats EXCEPT !.pc = "getUserLevel.points",
                              !.totalPoints = getUserPoints(pointTransactions, stats.userId)]
    /\ UNCHANGED awardState

\* getUserLevel: its own getUserPoints
StatsLevelPoints ==
    /\ stats.pc = "getUserLevel.points"
    /\ stats' = [stats EXCEPT !.pc = "getUserLevel.levels",
                              !.levelPoints = getUserPoints(pointTransactions, stats.userId)]
    /\ UNCHANGED awardState

\* getUserLevel: the levels query and the find
StatsLevel ==
    /\ stats.pc = "getUserLevel.levels"
    /\ \E level \in getUserLevel(levels, stats.levelPoints) :
          stats' = [stats EXCEPT !.pc = "getNextLevel.points", !.currentLevel = level]
    /\ UNCHANGED awardState

\* getNextLevel: its own getUserPoints
StatsNextPoints ==
    /\ stats.pc = "getNextLevel.points"
    /\ stats' = [stats EXCEPT !.pc = "getNextLevel.levels",
                              !.nextPoints = getUserPoints(pointTransactions, stats.userId)]
    /\ UNCHANGED awardState

\* getNextLevel: the levels query and the find
StatsNextLevel ==
    /\ stats.pc = "getNextLevel.levels"
    /\ \E level \in getNextLevel(levels, stats.nextPoints) :
          stats' = [stats EXCEPT !.pc = "achievements", !.nextLevel = level]
    /\ UNCHANGED awardState

\* prisma.achievement.findMany({ where: { isActive: true } })
StatsAchievements ==
    /\ stats.pc = "achievements"
    /\ stats' = [stats EXCEPT !.pc = "completed",
                              !.achievementCount =
                                  Cardinality({a \in achievements : a.isActive})]
    /\ UNCHANGED awardState

\* the findMany without its where clause: the rows of every user
StatsCompleted_AllUsers ==
    /\ stats.pc = "completed"
    /\ stats' = [stats EXCEPT
                   !.pc = "done",
                   !.completedAchievementCount = Len(userAchievements),
                   !.progressPercent =
                       Clamp(ProgressPercent(stats.totalPoints, stats.currentLevel,
                                             stats.nextLevel))]
    /\ UNCHANGED awardState

\* prisma.userAchievement.findMany({ where: { userId } }), then the result
StatsCompleted ==
    /\ stats.pc = "completed"
    /\ stats' = [stats EXCEPT
                   !.pc = "done",
                   !.completedAchievementCount =
                       CountRows(userAchievements, LAMBDA r : r.userId = stats.userId),
                   !.progressPercent =
                       Clamp(ProgressPercent(stats.totalPoints, stats.currentLevel,
                                             stats.nextLevel))]
    /\ UNCHANGED awardState


Next ==
    \/ \E u \in Users, keys \in KeyLists : Start("req1", u, keys)
    \/ \E u \in Users, k \in Keys : AwardHelper("req2", u, k)
    \/ \E p \in Procs : HasAchievementStep(p)
    \/ \E p \in Procs : HasUserAchievementStep(p)
    \/ \E p \in Procs : FindAchievementStep(p)
    \/ \E p \in Procs : TransactionStep(p)
    \/ \E k \in Keys : SeedAchievement(k)

\* requests that overlap in every possible way
Spec == Init /\ [][Next]_vars

\* operations that do not overlap: one runs to its end before the next starts
Quiet == \A p \in Procs : ~InFlight(p)

NextSeq ==
    \/ \E u \in Users, keys \in KeyLists : Quiet /\ Start("req1", u, keys)
    \/ HasAchievementStep("req1")
    \/ HasUserAchievementStep("req1")
    \/ FindAchievementStep("req1")
    \/ TransactionStep("req1")
    \/ \E k \in Keys : Quiet /\ SeedAchievement(k)

SpecSeq == Init /\ [][NextSeq]_vars

(***************************************************************************)
(* The dashboard: getUserStats calls, one after the other, for any level    *)
(* table and any ledger left by earlier point transactions                 *)
(***************************************************************************)
\* levels_levelNumber_key: one row per levelNumber; thresholds are free
LevelTables ==
    { { [levelNumber |-> n, pointsRequired |-> f[n]] : n \in S }
      : f \in [1..MaxLevels -> Thresholds], S \in SUBSET (1..MaxLevels) }

\* rows that reference no achievement (achievementId NULL, written 0)
ManualRow == [userId : Users, achievementId : {0}, points : Deltas]

ManualLedgers == UNION {[1..n -> ManualRow] : n \in 0..MaxManual}

InitStats ==
    /\ achievements = { [id |-> InitId(k), key |-> k, isActive |-> TRUE, points |-> SeedPoints(k)]
                          : k \in Keys }
    /\ levels \in LevelTables
    /\ pointTransactions \in ManualLedgers
    /\ persons = {}
    /\ NoAccounts
    /\ NoCalls

NextStats ==
    \/ \E u \in Users : StatsStart(u)
    \/ StatsPoints
    \/ StatsLevelPoints
    \/ StatsLevel
    \/ StatsNextPoints
    \/ StatsNextLevel
    \/ StatsAchievements
    \/ StatsCompleted

SpecStats == InitStats /\ [][NextStats]_vars

(***************************************************************************)
(* The dashboard of a user who is earning achievements: getUserStats calls *)
(* whose queries interleave with the steps of checkAndAwardMultiple calls  *)
(* that follow one another                                                 *)
(***************************************************************************)
\* getUserAchievements(userId): the active achievements, each with completed
\* = whether the user's rows hold one for it
getUserAchievements(ach, uas, u) ==
    { [id |-> a.id, key |-> a.key,
       completed |-> \E i \in 1..Len(uas) : uas[i].userId = u /\ uas[i].achievementId = a.id]
      : a \in {x \in ach : x.isActive} }

\* level tables with every levelNumber, thresholds growing with the number
GrowingLevelTables ==
    { T \in LevelTables :
        /\ Cardinality(T) = MaxLevels
        /\ \A x, y \in T : x.levelNumber < y.levelNumber => x.pointsRequired < y.pointsRequired }

\* key lists without repetition, as the trigger checks build them
DistinctKeyLists ==
    { keys \in KeyLists : \A i, j \in 1..Len(keys) : keys[i] = keys[j] => i = j }

\* any achievements table with the seeded levels, or the two achievements
\* active with a growing level table
InitDash ==
    /\ \/ achievements \in AchievementTables /\ levels = SeedLevels
       \/ /\ achievements = { [id |-> InitId(k), key |-> k, isActive |-> TRUE,
                                points |-> SeedPoints(k)] : k \in Keys }
          /\ levels \in GrowingLevelTables
    /\ pointTransactions = <<>>
    /\ persons = {}
    /\ NoAccounts
    /\ NoCalls

NextDash ==
    \/ \E u \in Users, keys \in DistinctKeyLists : Quiet /\ Start("req1", u, keys)
    \/ HasAchievementStep("req1")
    \/ HasUserAchievementStep("req1")
    \/ FindAchievementStep("req1")
    \/ TransactionStep("req1")
    \/ call["req1"].pc # "idle" /\ StatsStart(call["req1"].userId)
    \/ StatsPoints
    \/ StatsLevelPoints
    \/ StatsLevel
    \/ StatsNextPoints
    \/ StatsNextLevel
    \/ StatsAchievements
    \/ StatsCompleted

SpecDash == InitDash /\ [][NextDash]_vars

(***************************************************************************)
(* AchievementTriggers: each check reads the person with the rows it       *)
(* includes, collects the keys whose predicate holds and hands them to     *)
(* checkAndAwardMultiple                                                   *)
(***************************************************************************)
\* achievementsData, in seed order: key and points
AchievementsData ==
    << [key |-> "email_verified", points |-> 10],
       [key |-> "first_person_created", points |-> 20],
       [key |-> "profile_basics", points |-> 15],
       [key |-> "profile_photo", points |-> 15],
       [key |-> "first_interest", points |-> 10],
       [key |-> "interests_complete", points |-> 25],
       [key |-> "profile_complete", points |-> 50],
       [key |-> "first_private_address", points |-> 30],
       [key |-> "privacy_explorer", points |-> 20],
       [key |-> "nearby_discovery", points |-> 25],
       [key |-> "first_similar_person", points |-> 15],
       [key |-> "first_group_join", points |-> 25],
       [key |-> "first_group_create", points |-> 40],
       [key |-> "group_admin", points |-> 30],
       [key |-> "contact_sharer", points |-> 15],
       [key |-> "active_member", points |-> 35] >>

\* the achievements table after seedGamification ran on an empty database
SeededAchievements ==
    { [id |-> n, key |-> AchievementsData[n].key, isActive |-> TRUE,
       points |-> AchievementsData[n].points] : n \in 1..Len(AchievementsData) }

\* JavaScript truthiness of a string column; "" stands for null and for ''
Truthy(v) == v # ""

\* the query without its where clause: any person
FindPerson_Any(ps, personId) ==
    IF ps # {} THEN CHOOSE x \in ps : TRUE ELSE NULL

\* prisma.person.findUnique({ where: { id: personId }, include: ... })
FindPerson(ps, personId) ==
    IF \E x \in ps : x.id = personId THEN CHOOSE x \in ps : x.id = personId ELSE NULL

\* if (cond) achievementsToCheck.push(key)
PushIf(cond, key) == IF cond THEN <<key>> ELSE <<>>

Range(s) == {s[n] : n \in 1..Len(s)}

\* person.contactInformation.filter(pc => !pc.contactInformation.deleted)
ActiveContacts(person) == SelectSeq(person.contactInformation, LAMBDA pc : ~pc.deleted)

\* the interests taken without the filter
ActiveInterests_KeepDeleted(person) == person.interests

\* person.interests.filter(pi => !pi.interest.deleted)
ActiveInterests(person) == SelectSeq(person.interests, LAMBDA pi : ~pi.deleted)

\* profile_complete pushed without looking at the contacts
ProfileKeys_NoContacts(person) ==
    LET activeInterests == ActiveInterests(person)
        hasBasics == Truthy(person.firstName) /\ Truthy(person.pronouns)
                         /\ Truthy(person.imageURL)
        contactTypes == {c.type : c \in Range(ActiveContacts(person))}
    IN  PushIf(Truthy(person.firstName) /\ Truthy(person.pronouns), "profile_basics")
        \o PushIf(Truthy(person.imageURL), "profile_photo")
        \o PushIf(Len(activeInterests) >= 1, "first_interest")
        \o PushIf(Len(activeInterests) >= 5, "interests_complete")
        \o PushIf(hasBasics /\ Len(activeInterests) >= 5, "profile_complete")
        \o PushIf(Cardinality(contactTypes) >= 3, "contact_sharer")

\* achievementsToCheck of checkProfileAchievements
ProfileKeys(person) ==
    LET activeContacts == ActiveContacts(person)
        activeInterests == ActiveInterests(person)
        hasBasics == Truthy(person.firstName) /\ Truthy(person.pronouns)
                         /\ Truthy(person.imageURL)
        hasContacts == Len(activeContacts) >= 3
        hasInterests == Len(activeInterests) >= 5
        contactTypes == {c.type : c \in Range(activeContacts)}
    IN  PushIf(Truthy(person.firstName) /\ Truthy(person.pronouns), "profile_basics")
        \o PushIf(Truthy(person.imageURL), "profile_photo")
        \o PushIf(Len(activeInterests) >= 1, "first_interest")
        \o PushIf(Len(activeInterests) >= 5, "interests_complete")
        \o PushIf(hasBasics /\ hasContacts /\ hasInterests, "profile_complete")
        \o PushIf(Cardinality(contactTypes) >= 3, "contact_sharer")

\* checkPrivacyAchievements reading every contact, deleted ones included
PrivacyKeys_CountDeleted(person) ==
    LET activeContacts == person.contactInformation
        privateAddresses == SelectSeq(activeContacts,
                                LAMBDA pc : pc.type = "ADDRESS" /\ pc.privacy = "PRIVATE")
        privateContacts == SelectSeq(activeContacts, LAMBDA pc : pc.privacy = "PRIVATE")
        publicContacts == SelectSeq(activeContacts, LAMBDA pc : pc.privacy = "PUBLIC")
    IN  PushIf(Len(privateAddresses) >= 1, "first_private_address")
        \o PushIf(Len(privateContacts) >= 1 /\ Len(publicContacts) >= 1, "privacy_explorer")

\* achievementsToCheck of checkPrivacyAchievements
PrivacyKeys(person) ==
    LET activeContacts == ActiveContacts(person)
        privateAddresses == SelectSeq(activeContacts,
                                LAMBDA pc : pc.type = "ADDRESS" /\ pc.privacy = "PRIVATE")
        privateContacts == SelectSeq(activeContacts, LAMBDA pc : pc.privacy = "PRIVATE")
        publicContacts == SelectSeq(activeContacts, LAMBDA pc : pc.privacy = "PUBLIC")
    IN  PushIf(Len(privateAddresses) >= 1, "first_private_address")
        \o PushIf(Len(privateContacts) >= 1 /\ Len(publicContacts) >= 1, "privacy_explorer")

\* the memberships read without the filter on the group
MembershipsOfLiveGroups_All(person) == person.groupMemberships

\* groupMemberships: { where: { group: { deleted: false } } }
MembershipsOfLiveGroups(person) == SelectSeq(person.groupMemberships, LAMBDA pg : ~pg.deleted)

\* achievementsToCheck of checkGroupAchievements
GroupKeys(person) ==
    LET groupMemberships == MembershipsOfLiveGroups(person)
        adminGroups == SelectSeq(groupMemberships, LAMBDA pg : pg.isAdmin)
    IN  PushIf(Len(groupMemberships) >= 1, "first_group_join")
        \o PushIf(Len(adminGroups) >= 1, "group_admin")

\* checkActiveMemberAchievement content with one group
ActiveMember_OneGroup(person) ==
    LET activeContacts == ActiveContacts(person)
        activeInterests == ActiveInterests(person)
        activeGroups == SelectSeq(person.groupMemberships, LAMBDA pg : ~pg.deleted)
        hasCompleteProfile == Truthy(person.firstName) /\ Truthy(person.pronouns)
                                  /\ Truthy(person.imageURL) /\ Len(activeContacts) >= 3
        hasTwoGroups == Len(activeGroups) >= 1
        hasFiveInterests == Len(activeInterests) >= 5
    IN  hasCompleteProfile /\ hasTwoGroups /\ hasFiveInterests

\* the condition of checkActiveMemberAchievement
ActiveMember(person) ==
    LET activeContacts == ActiveContacts(person)
        activeInterests == ActiveInterests(person)
        activeGroups == SelectSeq(person.groupMemberships, LAMBDA pg : ~pg.deleted)
        hasCompleteProfile == Truthy(person.firstName) /\ Truthy(person.pronouns)
                                  /\ Truthy(person.imageURL) /\ Len(activeContacts) >= 3
        hasTwoGroups == Len(activeGroups) >= 2
        hasFiveInterests == Len(activeInterests) >= 5
    IN  hasCompleteProfile /\ hasTwoGroups /\ hasFiveInterests

\* if (!person) return []  and the final return [] of checkActiveMember:
\* the check ends with an empty array and no call of the service
ReturnEmpty(p) ==
    /\ ~InFlight(p)
    /\ ncalls < MaxCalls
    /\ ncalls' = ncalls + 1
    /\ call' = [call EXCEPT ![p] = [Idle EXCEPT !.pc = "done"]]
    /\ UNCHANGED <<achievements, userAchievements, pointTransactions, levels, returned, stats,
                   outside>>

Trigger(kind, personId) == [kind |-> kind, personId |-> personId]

checkProfileAchievements(p, personId) ==
    LET person == FindPerson(persons, personId)
    IN  /\ IF person = NULL THEN ReturnEmpty(p)
           ELSE Begin(p, person.userId, ProfileKeys(person))
        /\ caller' = [caller EXCEPT ![p] = Trigger("profile", personId)]

checkPrivacyAchievements(p, personId) ==
    LET person == FindPerson(persons, personId)
    IN  /\ IF person = NULL THEN ReturnEmpty(p)
           ELSE Begin(p, person.userId, PrivacyKeys(person))
        /\ caller' = [caller EXCEPT ![p] = Trigger("privacy", personId)]

checkGroupAchievements(p, personId) ==
    LET person == FindPerson(persons, personId)
    IN  /\ IF person = NULL THEN ReturnEmpty(p)
           ELSE Begin(p, person.userId, GroupKeys(person))
        /\ caller' = [caller EXCEPT ![p] = Trigger("group", personId)]

\* awardAchievement(userId, 'active_member') and [key] or [] from its result
checkActiveMemberAchievement(p, personId) ==
    LET person == FindPerson(persons, personId)
    IN  /\ IF person = NULL THEN ReturnEmpty(p)
           ELSE IF ActiveMember(person) THEN Begin(p, person.userId, <<"active_member">>)
           ELSE ReturnEmpty(p)
        /\ caller' = [caller EXCEPT ![p] = Trigger("active", personId)]

(***************************************************************************)
(* One trigger check applied to one person, for persons that differ in     *)
(* the rows the checks read.  The order of the rows of a relation is       *)
(* immaterial to the checks (filter, length, Set), so each collection of   *)
(* rows is drawn in one order.                                             *)
(***************************************************************************)
\* ContactType values the model follows, PrivacyLevel
ContactTypes == {"ADDRESS", "EMAIL", "PHONE"}
Privacies == {"PRIVATE", "PUBLIC"}

PersonIds == {1, 2}

TypeRank(t) == IF t = "ADDRESS" THEN 0 ELSE IF t = "EMAIL" THEN 1 ELSE 2

ContactRank(c) ==
    4 * TypeRank(c.type) + 2 * (IF c.privacy = "PRIVATE" THEN 0 ELSE 1)
        + (IF c.deleted THEN 1 ELSE 0)

MembershipRank(m) == 2 * (IF m.isAdmin THEN 0 ELSE 1) + (IF m.deleted THEN 1 ELSE 0)

DeletedRows(s) == Len(SelectSeq(s, LAMBDA r : r.deleted))

\* contactInformation arrays with rows of the given privacies
ContactLists(privacies) ==
    { s \in UNION { [1..n -> [type : ContactTypes, privacy : privacies, deleted : BOOLEAN]]
                      : n \in 0..MaxContacts } :
        /\ \A n \in 1..(Len(s) - 1) : ContactRank(s[n]) <= ContactRank(s[n + 1])
        /\ DeletedRows(s) <= MaxDeleted }

\* a rows of one kind followed by d rows of that kind marked deleted
CountedRows(row, a, d) == [n \in 1..(a + d) |-> [row EXCEPT !.deleted = n > a]]

CountedLists(row, max) ==
    { CountedRows(row, x[1], x[2]) :
        x \in {y \in (0..max) \X (0..MaxDeleted) : y[1] + y[2] <= max} }

InterestLists == CountedLists([deleted |-> FALSE], MaxInterests)

MembershipLists ==
    { s \in UNION { [1..n -> [isAdmin : BOOLEAN, deleted : BOOLEAN]] : n \in 0..MaxGroups } :
        /\ \A n \in 1..(Len(s) - 1) : MembershipRank(s[n]) <= MembershipRank(s[n + 1])
        /\ DeletedRows(s) <= MaxDeleted }

Basics == [firstName : {"", "Ada"}, pronouns : {"", "she/her"}, imageURL : {"", "ada.png"}]

Complete == [firstName |-> "Ada", pronouns |-> "she/her", imageURL |-> "ada.png"]

\* person 1 of user 1
Person(b, contacts, interests, memberships) ==
    [id |-> 1, userId |-> 1, firstName |-> b.firstName, pronouns |-> b.pronouns,
     imageURL |-> b.imageURL, contactInformation |-> contacts, interests |-> interests,
     groupMemberships |-> memberships]

\* persons that differ in what checkProfileAchievements reads
ProfilePeople ==
    { Person(b, c, i, <<>>) : b \in Basics, c \in ContactLists({"PUBLIC"}), i \in InterestLists }

\* persons that differ in what checkPrivacyAchievements reads
PrivacyPeople == { Person(Complete, c, <<>>, <<>>) : c \in ContactLists(Privacies) }

\* persons that differ in what checkGroupAchievements reads
GroupPeople == { Person(Complete, <<>>, <<>>, m) : m \in MembershipLists }

\* persons that differ in what checkActiveMemberAchievement counts
ActivePeople ==
    { Person(b, c, i, m) :
        b \in Basics,
        c \in CountedLists([type |-> "EMAIL", privacy |-> "PUBLIC", deleted |-> FALSE],
                           MaxContacts),
        i \in InterestLists,
        m \in CountedLists([isAdmin |-> FALSE, deleted |-> FALSE], MaxGroups) }

\* the table persons holds one person of one of the families
People(ps) ==
    \/ \E x \in ProfilePeople : ps = {x}
    \/ \E x \in PrivacyPeople : ps = {x}
    \/ \E x \in GroupPeople : ps = {x}
    \/ \E x \in ActivePeople : ps = {x}

InitTrig ==
    /\ achievements = SeededAchievements
    /\ levels = SeedLevels
    /\ pointTransactions = <<>>
    /\ People(persons)
    /\ NoAccounts
    /\ NoCalls

Fresh == call["req1"].pc = "idle"

NextTrig ==
    \/ \E personId \in PersonIds : Fresh /\ checkProfileAchievements("req1", personId)
    \/ \E personId \in PersonIds : Fresh /\ checkPrivacyAchievements("req1", personId)
    \/ \E personId \in PersonIds : Fresh /\ checkGroupAchievements("req1", personId)
    \/ \E personId \in PersonIds : Fresh /\ checkActiveMemberAchievement("req1", personId)
    \/ HasAchievementStep("req1")
    \/ HasUserAchievementStep("req1")
    \/ FindAchievementStep("req1")
    \/ TransactionStep("req1")

SpecTrig == InitTrig /\ [][NextTrig]_vars

(***************************************************************************)
(* A person over time: trigger checks one after the other, while interests *)
(* the person has are deleted by an administrator                          *)
(***************************************************************************)
\* DELETE /api/interests/:id on the interest of the person's n-th row:
\* prisma.interest.update({ data: { deleted: true } })
DeleteInterest(n) ==
    /\ \E x \in persons :
          /\ n \in 1..Len(x.interests)
          /\ ~x.interests[n].deleted
          /\ DeletedRows(x.interests) < MaxDeleted
          /\ persons' = (persons \ {x}) \cup {[x EXCEPT !.interests[n].deleted = TRUE]}
    /\ UNCHANGED <<achievements, userAchievements, pointTransactions, levels, call, ncalls,
                   returned, stats, caller, responses, limiter, auth>>

\* persons with three contacts who differ in their interests
LifePeople ==
    { Person(Complete,
             CountedRows([type |-> "EMAIL", privacy |-> "PUBLIC", deleted |-> FALSE], 3, 0),
             i, <<>>) : i \in InterestLists }

InitLife ==
    /\ achievements = SeededAchievements
    /\ levels = SeedLevels
    /\ pointTransactions = <<>>
    /\ persons \in {{x} : x \in LifePeople}
    /\ NoAccounts
    /\ NoCalls

NextLife ==
    \/ \E personId \in PersonIds : checkProfileAchievements("req1", personId)
    \/ \E personId \in PersonIds : checkPrivacyAchievements("req1", personId)
    \/ \E personId \in PersonIds : checkGroupAchievements("req1", personId)
    \/ \E personId \in PersonIds : checkActiveMemberAchievement("req1", personId)
    \/ HasAchievementStep("req1")
    \/ HasUserAchievementStep("req1")
    \/ FindAchievementStep("req1")
    \/ TransactionStep("req1")
    \/ \E n \in 1..MaxInterests : DeleteInterest(n)

SpecLife == InitLife /\ [][NextLife]_vars

(***************************************************************************)
(* One trigger check called again and again for one person, with nothing   *)
(* else running in between                                                 *)
(***************************************************************************)
\* persons with the profile, the interests and the contacts of an active
\* member, who differ in their groups
MemberPeople ==
    { Person(Complete,
             CountedRows([type |-> "EMAIL", privacy |-> "PUBLIC", deleted |-> FALSE], 3, 0),
             CountedRows([deleted |-> FALSE], 5, 0),
             m) : m \in CountedLists([isAdmin |-> FALSE, deleted |-> FALSE], MaxGroups) }

\* the table persons holds one person of one of these families
TwicePeople(ps) ==
    \/ \E x \in PrivacyPeople : ps = {x}
    \/ \E x \in GroupPeople : ps = {x}
    \/ \E x \in LifePeople : ps = {x}
    \/ \E x \in MemberPeople : ps = {x}

InitTwice ==
    /\ achievements = SeededAchievements
    /\ levels = SeedLevels
    /\ pointTransactions = <<>>
    /\ TwicePeople(persons)
    /\ NoAccounts
    /\ NoCalls

\* the first call, or the same call once more after it has returned
Again(kind, personId) ==
    \/ ncalls = 0
    \/ call["req1"].pc = "done" /\ caller["req1"] = Trigger(kind, personId)

NextTwice ==
    \/ \E personId \in PersonIds :
          Again("profile", personId) /\ checkProfileAchievements("req1", personId)
    \/ \E personId \in PersonIds :
          Again("privacy", personId) /\ checkPrivacyAchievements("req1", personId)
    \/ \E personId \in PersonIds :
          Again("group", personId) /\ checkGroupAchievements("req1", personId)
    \/ \E personId \in PersonIds :
          Again("active", personId) /\ checkActiveMemberAchievement("req1", personId)
    \/ HasAchievementStep("req1")
    \/ HasUserAchievementStep("req1")
    \/ FindAchievementStep("req1")
    \/ TransactionStep("req1")

SpecTwice == InitTwice /\ [][NextTwice]_vars

(***************************************************************************)
(* POST /api/gamification/achievements/check                               *)
(***************************************************************************)
\* what req.body.achievementKeys may hold: an array of keys, a string (its
\* items are its characters), an object, or nothing
Bodies ==
    {[type |-> "array", items |-> keys] : keys \in KeyLists}
        \cup {[type |-> "string", items |-> <<"x">>],
              [type |-> "object", items |-> <<>>],
              [type |-> "undefined", items |-> <<>>]}

\* a test that lets every iterable through
IsArray_Iterable(body) == body.type \in {"array", "string"}

\* Array.isArray(achievementKeys)
IsArray(body) == body.type = "array"

Route == [kind |-> "route", personId |-> 0]

\* a route that awards only to users who have a person
PostCheck_PersonNeeded(p, userId, body) ==
    LET items == IF \E x \in persons : x.userId = userId THEN body.items ELSE <<>> IN
    /\ call[p].pc = "idle"
    /\ IF ~IsArray(body)
       THEN /\ ncalls < MaxCalls
            /\ userId <= ncalls + 1
            /\ ncalls' = ncalls + 1
            /\ responses' = Append(responses, [userId |-> userId, body |-> body,
                                               status |-> 400, success |-> FALSE,
                                               awarded |-> <<>>])
            /\ UNCHANGED <<achievements, userAchievements, pointTransactions, levels, call,
                           returned, stats, caller, persons, limiter, auth>>
       ELSE /\ ~InFlight(p)
            /\ ncalls < MaxCalls
            /\ userId <= ncalls + 1
            /\ ncalls' = ncalls + 1
            /\ call' = [call EXCEPT ![p] =
                          [Idle EXCEPT !.pc = IF items = <<>> THEN "done"
                                              ELSE "hasAchievement",
                                       !.userId = userId, !.keys = items,
                                       !.i = IF items = <<>> THEN 0 ELSE 1]]
            /\ caller' = [caller EXCEPT ![p] = Route]
            /\ responses' = Append(responses, [userId |-> userId, body |-> body,
                                               status |-> 0, success |-> FALSE,
                                               awarded |-> <<>>])
            /\ UNCHANGED <<achievements, userAchievements, pointTransactions, levels,
                           returned, stats, persons, limiter, auth>>

\* the handler up to its first await: 400 for a body field that is no
\* array, else the call of checkAndAwardMultiple
PostCheck(p, userId, body) ==
    /\ call[p].pc = "idle"
    /\ IF ~IsArray(body)
       THEN /\ ncalls < MaxCalls
            /\ userId <= ncalls + 1
            /\ ncalls' = ncalls + 1
            /\ responses' = Append(responses, [userId |-> userId, body |-> body,
                                               status |-> 400, success |-> FALSE,
                                               awarded |-> <<>>])
            /\ UNCHANGED <<achievements, userAchievements, pointTransactions, levels, call,
                           returned, stats, caller, persons, limiter, auth>>
       ELSE /\ ~InFlight(p)
            /\ ncalls < MaxCalls
            /\ userId <= ncalls + 1
            /\ ncalls' = ncalls + 1
            /\ call' = [call EXCEPT ![p] =
                          [Idle EXCEPT !.pc = IF body.items = <<>> THEN "done"
                                              ELSE "hasAchievement",
                                       !.userId = userId, !.keys = body.items,
                                       !.i = IF body.items = <<>> THEN 0 ELSE 1]]
            /\ caller' = [caller EXCEPT ![p] = Route]
            /\ responses' = Append(responses, [userId |-> userId, body |-> body,
                                               status |-> 0, success |-> FALSE,
                                               awarded |-> <<>>])
            /\ UNCHANGED <<achievements, userAchievements, pointTransactions, levels,
                           returned, stats, persons, limiter, auth>>

\* checkAndAwardMultiple has resolved: res.json({ success: true, data: { awarded } }).
\* A rejected call sends nothing from here: asyncHandler hands the error on.
Respond(p) ==
    /\ call[p].pc = "done"
    /\ caller[p] = Route
    /\ responses' = [responses EXCEPT ![Len(responses)] =
                        [@ EXCEPT !.status = 200, !.success = TRUE,
                                  !.awarded = call[p].awarded]]
    /\ call' = [call EXCEPT ![p] = Idle]
    /\ UNCHANGED <<achievements, userAchievements, pointTransactions, levels, ncalls, returned,
                   stats, caller, persons, limiter, auth>>

InitRoute ==
    /\ achievements = { [id |-> InitId(k), key |-> k, isActive |-> TRUE, points |-> SeedPoints(k)]
                          : k \in Keys }
    /\ levels = SeedLevels
    /\ pointTransactions = <<>>
    /\ persons = {}
    /\ NoAccounts
    /\ NoCalls

NextRoute ==
    \/ \E userId \in Users, body \in Bodies : PostCheck("req1", userId, body)
    \/ HasAchievementStep("req1")
    \/ HasUserAchievementStep("req1")
    \/ FindAchievementStep("req1")
    \/ TransactionStep("req1")
    \/ Respond("req1")

SpecRoute == InitRoute /\ [][NextRoute]_vars

(***************************************************************************)
(* The same route called by user 1, for any state of the achievements      *)
(* table and of the user's person                                          *)
(***************************************************************************)
\* bodies with an array of distinct keys, and one that is no array
OpenBodies ==
    {[type |-> "array", items |-> keys] : keys \in DistinctKeyLists}
        \cup {[type |-> "string", items |-> <<"x">>]}

\* user 1 has no person, or one with no group or with one membership
OpenPeople(ps) ==
    \/ ps = {}
    \/ \E x \in GroupPeople : Len(x.groupMemberships) <= 1 /\ ps = {x}

InitOpen ==
    /\ achievements \in AchievementTables
    /\ levels = SeedLevels
    /\ pointTransactions = <<>>
    /\ OpenPeople(persons)
    /\ NoAccounts
    /\ NoCalls

NextOpen ==
    \/ \E body \in OpenBodies : PostCheck("req1", 1, body)
    \/ HasAchievementStep("req1")
    \/ HasUserAchievementStep("req1")
    \/ FindAchievementStep("req1")
    \/ TransactionStep("req1")
    \/ Respond("req1")

SpecOpen == InitOpen /\ [][NextOpen]_vars

(***************************************************************************)
(* lib/rate-limit.ts: at most MAX_PER_WINDOW e-mails per address and       *)
(* window.  An address is the sequence of its character codes.             *)
(***************************************************************************)
WINDOW_MS == 15 * 60 * 1000
MAX_PER_WINDOW == 3

\* "A@", "a@" and "b@"
Emails == {<<65, 64>>, <<97, 64>>, <<98, 64>>}

\* the time that passes before a call: none, 1 ms, 1 ms less than the window
Delays == {0, 1, WINDOW_MS - 1}

\* the address used as the key as it was typed
toLowerCase_AsTyped(email) == email

\* String.prototype.toLowerCase on the letters A-Z
toLowerCase(email) ==
    [i \in 1..Len(email) |-> IF email[i] \in 65..90 THEN email[i] + 32 ELSE email[i]]

\* attempts.get(key) || []
Get(map, key) == IF key \in DOMAIN map THEN map[key] ELSE <<>>

\* attempts.set(key, value)
Set(map, key, value) ==
    [k \in DOMAIN map \cup {key} |-> IF k = key THEN value ELSE map[k]]

\* timestamps.filter(t => now - t < WINDOW_MS)
Recent(timestamps, at) == SelectSeq(timestamps, LAMBDA t : at - t < WINDOW_MS)

gamification == <<achievements, userAchievements, pointTransactions, levels, call, ncalls,
                  returned, stats, caller, persons, responses>>

\* the state that a bare call of the limiter leaves alone
besideLimiter == <<gamification, auth>>

\* a limiter that pushes the time of the call whatever it returns
Limit_CountRefused(map, email, at) ==
    LET key == toLowerCase(email)
        recent == Recent(Get(map, key), at)
    IN  [allowed |-> Len(recent) < MAX_PER_WINDOW,
         attempts |-> Set(map, key, Append(recent, at))]

\* the body of checkEmailRateLimit(email) run at time at on the Map map:
\* what it returns and the Map it leaves
Limit(map, email, at) ==
    LET key == toLowerCase(email)
        recent == Recent(Get(map, key), at)
    IN  IF Len(recent) >= MAX_PER_WINDOW
        THEN [allowed |-> FALSE, attempts |-> Set(map, key, recent)]
        ELSE [allowed |-> TRUE, attempts |-> Set(map, key, Append(recent, at))]

\* a call of checkEmailRateLimit(email), delay ms after the latest call, by
\* a route that goes on with the rest of its handler
Limited(email, delay) ==
    /\ Len(checks) < MaxChecks
    /\ now' = now + delay
    /\ attempts' = Limit(attempts, email, now').attempts
    /\ checks' = Append(checks, [email |-> email, at |-> now',
                                 allowed |-> Limit(attempts, email, now').allowed])

\* checkEmailRateLimit(email), called delay ms after the latest call
checkEmailRateLimit(email, delay) ==
    /\ Limited(email, delay)
    /\ UNCHANGED besideLimiter

\* the setInterval callback, running at the time of the latest call: it
\* drops the attempts that left the window and the addresses left with none
Cleanup ==
    /\ \E key \in DOMAIN attempts : Recent(attempts[key], now) # attempts[key]
    /\ attempts' = [key \in {k \in DOMAIN attempts : Recent(attempts[k], now) # <<>>} |->
                       Recent(attempts[key], now)]
    /\ UNCHANGED <<now, checks>>
    /\ UNCHANGED besideLimiter

InitLimit ==
    /\ achievements = SeededAchievements
    /\ levels = SeedLevels
    /\ pointTransactions = <<>>
    /\ persons = {}
    /\ NoAccounts
    /\ NoCalls

NextLimit ==
    \/ \E email \in Emails, delay \in Delays : checkEmailRateLimit(email, delay)
    \/ Cleanup

SpecLimit == InitLimit /\ [][NextLimit]_vars

(***************************************************************************)
(* The limiter after a burst: calls and cleanups that follow 0 to 3 calls  *)
(* made for "a@" at time 0; checks logs the calls after the burst          *)
(***************************************************************************)
\* the Map after n allowed calls for "a@" at time 0
Burst(n) == IF n = 0 THEN <<>> ELSE Set(<<>>, <<97, 64>>, [i \in 1..n |-> 0])

InitCool ==
    /\ achievements = SeededAchievements
    /\ levels = SeedLevels
    /\ pointTransactions = <<>>
    /\ persons = {}
    /\ NoAccounts
    /\ NoRequests
    /\ \E n \in 0..MAX_PER_WINDOW : attempts = Burst(n)

NextCool ==
    \/ \E email \in Emails, delay \in Delays : checkEmailRateLimit(email, delay)
    \/ Cleanup

SpecCool == InitCool /\ [][NextCool]_vars

(***************************************************************************)
(* routes/auth.ts, GET /api/auth/verify-magic-link.  A token is a number:  *)
(* the n-th link created carries token n, 0 stands for a request without   *)
(* token.  Requests may overlap; each await of the handler is one action.  *)
(***************************************************************************)
\* expiresAt.setMinutes(expiresAt.getMinutes() + 15)
LinkLifetime == 15 * 60 * 1000

\* the tokens requests carry: none, the token of the link, one never issued
QueryTokens == {0, 1, 2}

\* "a@", the address of the one account
AccountEmail == <<97, 64>>

\* where: { token, used: false, expiresAt: { gte: new Date() } } without
\* the test of used
Matching_UsedToo(rows, token, at) ==
    {n \in 1..Len(rows) : rows[n].token = token /\ rows[n].expiresAt >= at}

\* where: { token, used: false, expiresAt: { gte: new Date() } }
Matching(rows, token, at) ==
    {n \in 1..Len(rows) : rows[n].token = token /\ ~rows[n].used /\ rows[n].expiresAt >= at}

\* prisma.user.findFirst({ where: { email, deleted: false } })
FindUser(us, email) ==
    IF \E u \in us : u.email = email /\ ~u.deleted
    THEN CHOOSE u \in us : u.email = email /\ ~u.deleted
    ELSE NULL

\* throw createError(status, ...): the request ends with that status
Throw(v, status) == [v EXCEPT !.pc = "done", !.status = status]

\* the handler starts: if (!token || typeof token !== 'string') throw 400
VerifyStart(r, token) ==
    /\ verify[r].pc = "idle"
    /\ verify' = [verify EXCEPT ![r] =
                    IF token = 0 THEN Throw([VerifyIdle EXCEPT !.token = token], 400)
                    ELSE [VerifyIdle EXCEPT !.pc = "updateMany", !.token = token]]
    /\ UNCHANGED <<gamification, limiter, users, authenticationAttempts, answers>>

\* prisma.authenticationAttempt.updateMany: one statement that marks the
\* matching rows used and returns their number
UpdateManyStep(r) ==
    /\ verify[r].pc = "updateMany"
    /\ LET v == verify[r]
           hit == Matching(authenticationAttempts, v.token, now)
       IN  /\ authenticationAttempts' =
                  [n \in 1..Len(authenticationAttempts) |->
                      IF n \in hit THEN [authenticationAttempts[n] EXCEPT !.used = TRUE]
                      ELSE authenticationAttempts[n]]
           /\ verify' = [verify EXCEPT ![r] =
                           IF Cardinality(hit) = 0
                           THEN Throw([v EXCEPT !.at = now], 400)
                           ELSE [v EXCEPT !.pc = "findUnique", !.at = now,
                                          !.count = Cardinality(hit)]]
    /\ UNCHANGED <<gamification, limiter, users, answers>>

\* prisma.authenticationAttempt.findUnique({ where: { token } })
FindUniqueStep(r) ==
    /\ verify[r].pc = "findUnique"
    /\ LET v == verify[r]
           found == {n \in 1..Len(authenticationAttempts) :
                        authenticationAttempts[n].token = v.token}
       IN  verify' = [verify EXCEPT ![r] =
                        IF found = {} THEN Throw(v, 400)
                        ELSE [v EXCEPT !.pc = "findUser",
                                       !.email = authenticationAttempts[CHOOSE n \in found : TRUE].email]]
    /\ UNCHANGED <<gamification, limiter, users, authenticationAttempts, answers>>

\* prisma.user.findFirst for the address of the link; 404 without a user
FindUserStep(r) ==
    /\ verify[r].pc = "findUser"
    /\ LET v == verify[r]
           user == FindUser(users, v.email)
       IN  verify' = [verify EXCEPT ![r] =
                        IF user = NULL THEN Throw(v, 404)
                        ELSE [v EXCEPT !.pc = "login", !.userId = user.id]]
    /\ UNCHANGED <<gamification, limiter, users, authenticationAttempts, answers>>

\* req.login(user), the session is saved, res.json({ success: true, ... })
LoginStep(r) ==
    /\ verify[r].pc = "login"
    /\ verify' = [verify EXCEPT ![r] = [verify[r] EXCEPT !.pc = "done", !.status = 200]]
    /\ UNCHANGED <<gamification, limiter, users, authenticationAttempts, answers>>

\* the instants after time 0 at which a request may find the clock: the
\* last millisecond before the expiry of the link, the expiry, and up to
\* MaxLate ms later
Instants == {LinkLifetime - 1, LinkLifetime} \cup {LinkLifetime + n : n \in 1..MaxLate}

\* time passes
Tick(t) ==
    /\ t > now
    /\ now' = t
    /\ UNCHANGED <<gamification, attempts, checks, auth>>

\* the account, kept or deleted since, and the link that send-magic-link
\* created for it at time 0
InitVerify ==
    /\ achievements = SeededAchievements
    /\ levels = SeedLevels
    /\ pointTransactions = <<>>
    /\ persons = {}
    /\ NoCalls
    /\ users \in {{[id |-> 1, email |-> AccountEmail, verificationToken |-> "",
                    deleted |-> d]} : d \in BOOLEAN}
    /\ authenticationAttempts = <<[email |-> AccountEmail, token |-> 1,
                                   expiresAt |-> LinkLifetime, used |-> FALSE]>>

NextVerify ==
    \/ \E r \in VerifyProcs, token \in QueryTokens : VerifyStart(r, token)
    \/ \E r \in VerifyProcs : UpdateManyStep(r)
    \/ \E r \in VerifyProcs : FindUniqueStep(r)
    \/ \E r \in VerifyProcs : FindUserStep(r)
    \/ \E r \in VerifyProcs : LoginStep(r)
    \/ \E t \in Instants : Tick(t)

SpecVerify == InitVerify /\ [][NextVerify]_vars

(***************************************************************************)
(* routes/auth.ts, POST /api/auth/send-magic-link and                      *)
(* POST /api/auth/resend-verification                                      *)
(***************************************************************************)
\* "b@", the address of a second account
OtherEmail == <<98, 64>>

\* the response bodies of send-magic-link, by the place the handler returns
MagicLinkResponse_NotVerified(place) ==
    [success |-> TRUE,
     message |-> CASE place = "no user" -> "If the email exists, a sign-in link has been sent"
                   [] place = "not verified" -> "Please verify your email first"
                   [] place = "rate limited" -> "If the email exists, a sign-in link has been sent"
                   [] place = "sent" -> "If the email exists, a sign-in link has been sent"]

MagicLinkResponse(place) ==
    [success |-> TRUE,
     message |-> CASE place = "no user" -> "If the email exists, a sign-in link has been sent"
                   [] place = "not verified" -> "If the email exists, a sign-in link has been sent"
                   [] place = "rate limited" -> "If the email exists, a sign-in link has been sent"
                   [] place = "sent" -> "If the email exists, a sign-in link has been sent"]

\* the response bodies of resend-verification, by the place the handler returns
VerificationResponse(place) ==
    [success |-> TRUE,
     message |-> CASE place = "no user" -> "If the email exists, a verification link has been sent"
                   [] place = "verified" -> "Email is already verified"
                   [] place = "rate limited" -> "If the email exists, a verification link has been sent"
                   [] place = "sent" -> "Verification email sent"]

\* res.json(response), with what the request was about: whether a
\* non-deleted user has the address and whether an e-mail went out
Answer(route, email, registered, mailed, body) ==
    [route |-> route, email |-> email, registered |-> registered, mailed |-> mailed,
     success |-> body.success, message |-> body.message]

tables == <<gamification, users, verify>>

\* POST /send-magic-link { email }; delivered: sendMagicLinkEmail resolved
SendMagicLink(email, delay, delivered) ==
    LET user == FindUser(users, email)
    IN  /\ IF user = NULL
           THEN /\ answers' = answers \cup
                      {Answer("send-magic-link", email, FALSE, FALSE, MagicLinkResponse("no user"))}
                /\ UNCHANGED <<limiter, authenticationAttempts>>
           ELSE IF Truthy(user.verificationToken)
           THEN /\ answers' = answers \cup
                      {Answer("send-magic-link", email, TRUE, FALSE,
                              MagicLinkResponse("not verified"))}
                /\ UNCHANGED <<limiter, authenticationAttempts>>
           ELSE /\ Limited(email, delay)
                /\ IF ~Limit(attempts, email, now').allowed
                   THEN /\ answers' = answers \cup
                              {Answer("send-magic-link", email, TRUE, FALSE,
                                      MagicLinkResponse("rate limited"))}
                        /\ UNCHANGED authenticationAttempts
                   ELSE /\ authenticationAttempts' =
                              Append(authenticationAttempts,
                                     [email |-> email,
                                      token |-> Len(authenticationAttempts) + 1,
                                      expiresAt |-> now' + LinkLifetime, used |-> FALSE])
                        /\ answers' = answers \cup
                              {Answer("send-magic-link", email, TRUE, delivered,
                                      MagicLinkResponse("sent"))}
        /\ UNCHANGED tables

\* POST /resend-verification { email }; delivered: sendVerificationEmail resolved
ResendVerification(email, delay, delivered) ==
    LET user == FindUser(users, email)
    IN  /\ IF user = NULL
           THEN /\ answers' = answers \cup
                      {Answer("resend-verification", email, FALSE, FALSE,
                              VerificationResponse("no user"))}
                /\ UNCHANGED limiter
           ELSE IF ~Truthy(user.verificationToken)
           THEN /\ answers' = answers \cup
                      {Answer("resend-verification", email, TRUE, FALSE,
                              VerificationResponse("verified"))}
                /\ UNCHANGED limiter
           ELSE /\ Limited(email, delay)
                /\ IF ~Limit(attempts, email, now').allowed
                   THEN answers' = answers \cup
                            {Answer("resend-verification", email, TRUE, FALSE,
                                    VerificationResponse("rate limited"))}
                   ELSE answers' = answers \cup
                            {Answer("resend-verification", email, TRUE, delivered,
                                    VerificationResponse("sent"))}
        /\ UNCHANGED <<tables, authenticationAttempts>>

\* the verified account of "a@", kept or deleted
Accounts ==
    {{[id |-> 1, email |-> AccountEmail, verificationToken |-> "", deleted |-> d]} :
        d \in BOOLEAN}

\* the account of "b@", waiting for verification
OtherAccounts == {{[id |-> 2, email |-> OtherEmail, verificationToken |-> "9e41",
                    deleted |-> FALSE]}}

\* the time between two requests: none, or 1 ms less than the window
MailDelays == {0, WINDOW_MS - 1}

InitMail ==
    /\ achievements = SeededAchievements
    /\ levels = SeedLevels
    /\ pointTransactions = <<>>
    /\ persons = {}
    /\ NoCalls
    /\ users \in {a \cup b : a \in Accounts, b \in OtherAccounts}
    /\ authenticationAttempts = <<>>

NextMail ==
    \/ \E email \in Emails, delay \in MailDelays, delivered \in BOOLEAN :
          SendMagicLink(email, delay, delivered)
    \/ \E email \in Emails, delay \in MailDelays, delivered \in BOOLEAN :
          ResendVerification(email, delay, delivered)

SpecMail == InitMail /\ [][NextMail]_vars

(***************************************************************************)
(* Properties of awardAchievement and checkAndAwardMultiple                *)
(***************************************************************************)
Last(s) == s[Len(s)]

InAward(p) == call[p].pc \in {"hasAchievement", "hasUserAchievement", "findAchievement", "transaction"}

\* this step ends the awardAchievement call that request p is in
Ended(p) == InAward(p) /\ Len(call'[p].results) > Len(call[p].results)

\* Under SpecSeq nothing runs between the first and the last step of an
\* awardAchievement call, so the tables seen by the step that ends the call
\* are the tables the call began with.

\* C1: non-overlapping awardAchievement(u, k) calls for an existing, active
\* key k leave exactly one UserAchievement row for (u, k) and exactly one
\* PointTransaction row of u referencing k; the first call returns the
\* achievement and every later call returns null.
C1_AwardedExactlyOnce ==
    [][/\ \A p \in Procs :
             (Ended(p) /\ ActiveKey(CurKey(p))) =>
                 Last(call'[p].results) =
                     IF <<call[p].userId, CurKey(p)>> \in returned THEN "null"
                     ELSE "achievement"
       /\ \A pair \in returned' :
             LET a == FindAchievement(achievements', pair[2])
             IN  /\ a # NULL
                 /\ UACount(userAchievements', pair[1], a.id) = 1
                 /\ PTCount(pointTransactions', pair[1], a.id) = 1]_vars

\* a second call for the pair has returned null
C1_Witness ==
    \E p \in Procs : \E i \in 1..Len(call[p].results) :
        /\ call[p].results[i] = "null"
        /\ <<call[p].userId, call[p].keys[i]>> \in returned
        /\ UACount(userAchievements, call[p].userId,
                   FindAchievement(achievements, call[p].keys[i]).id) = 1

\* C2: however concurrent awardAchievement calls for one (user, achievement)
\* interleave, there is never more than one UserAchievement row for the pair
\* and never more than one PointTransaction row awarding it.
C2_AtMostOneRow ==
    \A u \in Users : \A a \in achievements :
        /\ UACount(userAchievements, u, a.id) <= 1
        /\ PTCount(pointTransactions, u, a.id) <= 1

\* two calls for the same pair were past the already-earned check together
\* and both have run their transaction
C2_Witness ==
    /\ call["req1"].pc \in {"done", "error", "hasAchievement"}
    /\ call["req2"].pc \in {"done", "error"}
    /\ call["req1"].userId = call["req2"].userId
    /\ \E i \in 1..Len(call["req1"].results) :
          /\ call["req1"].keys[i] = call["req2"].keys[1]
          /\ {call["req1"].results[i], call["req2"].results[1]} = {"achievement", "error"}

\* C3: in every state, also after an award transaction that failed, the
\* UserAchievement rows of (u, a) are as many as the PointTransaction rows
\* of u that reference a.
C3_BothRowsOrNeither ==
    \A u \in Users : \A a \in achievements :
        UACount(userAchievements, u, a.id) = PTCount(pointTransactions, u, a.id)

C3_Witness ==
    \E p \in Procs :
        /\ call[p].pc = "error"
        /\ UACount(userAchievements, call[p].userId, call[p].achievement.id) = 1
        /\ PTCount(pointTransactions, call[p].userId, call[p].achievement.id) = 1

\* C5: an awardAchievement(u, k) call made when k is already earned by u,
\* names no achievement, or names an inactive achievement returns null and
\* changes neither the UserAchievement nor the PointTransaction table.
C5_NullAndNoWrite ==
    [][\A p \in Procs :
          (InAward(p) /\ ~Eligible(call[p].userId, CurKey(p)) /\ call'[p] # call[p]) =>
              /\ userAchievements' = userAchievements
              /\ pointTransactions' = pointTransactions
              /\ Ended(p) => Last(call'[p].results) = "null"]_vars

\* a call for an earned key and a call for an inactive key have returned
C5_Witness ==
    /\ \E p \in Procs : \E i \in 1..Len(call[p].results) :
          /\ call[p].results[i] = "null"
          /\ Earned(call[p].userId, call[p].keys[i])
    /\ \E p \in Procs : \E i \in 1..Len(call[p].results) :
          /\ call[p].results[i] = "null"
          /\ LET a == FindAchievement(achievements, call[p].keys[i])
             IN  a # NULL /\ ~a.isActive

\* C6: checkAndAwardMultiple(u, keys) returns the keys of the input, in input
\* order, that were existing, active and not yet earned by u when their turn
\* came: the result starts empty and each turn appends its key exactly when
\* the key was eligible; an earned key is skipped without an error and
\* without a write; every returned key is earned afterwards.
EarnedIn(ach, uas, u, k) ==
    LET a == FindAchievement(ach, k)
    IN  a # NULL /\ FindUserAchievement(uas, u, a.id)

C6_ReturnsNewKeys ==
    [][\A p \in Procs :
          /\ call'[p].pc # "error"
          /\ (~InAward(p) /\ call'[p] # call[p]) => call'[p].awarded = <<>>
          /\ Ended(p) =>
                call'[p].awarded =
                    IF Eligible(call[p].userId, CurKey(p))
                    THEN Append(call[p].awarded, CurKey(p))
                    ELSE call[p].awarded
          /\ (InAward(p) /\ ~Ended(p)) => call'[p].awarded = call[p].awarded
          /\ call'[p].pc = "done" =>
                \A i \in 1..Len(call'[p].awarded) :
                    EarnedIn(achievements', userAchievements', call'[p].userId,
                             call'[p].awarded[i])
          /\ (InAward(p) /\ Earned(call[p].userId, CurKey(p)) /\ call'[p] # call[p]) =>
                /\ userAchievements' = userAchievements
                /\ pointTransactions' = pointTransactions]_vars

\* a finished call whose input mixed an already-earned key and a new key
C6_Witness ==
    \E p \in Procs :
        /\ call[p].pc = "done"
        /\ Len(call[p].keys) = 2
        /\ call[p].keys[1] # call[p].keys[2]
        /\ call[p].results = <<"null", "achievement">>
        /\ ActiveKey(call[p].keys[1])
        /\ Earned(call[p].userId, call[p].keys[1])
        /\ call[p].awarded = <<call[p].keys[2]>>

(***************************************************************************)
(* Properties of getUserPoints, getUserLevel, getNextLevel, getUserStats   *)
(***************************************************************************)
\* the sum of the points of the rows at the indices I
RECURSIVE SumAt(_, _)
SumAt(pts, I) ==
    IF I = {} THEN 0
    ELSE LET i == CHOOSE j \in I : TRUE IN pts[i].points + SumAt(pts, I \ {i})

LedgerSum(pts, u) == SumAt(pts, {i \in 1..Len(pts) : pts[i].userId = u})

AfterLevel == {"getNextLevel.points", "getNextLevel.levels", "achievements", "completed", "done"}
AfterNext == {"achievements", "completed", "done"}

\* C4: every getUserPoints(user) returns max(0, sum of the points of that
\* user's transactions): never negative, other users' rows never counted.
C4_PointsClampedSum ==
    [][LET sum == LedgerSum(pointTransactions, stats.userId)
       IN  /\ stats.pc = "getUserPoints" /\ stats'.pc # stats.pc =>
                stats'.totalPoints = Max(0, sum) /\ stats'.totalPoints >= 0
           /\ stats.pc = "getUserLevel.points" /\ stats'.pc # stats.pc =>
                stats'.levelPoints = Max(0, sum) /\ stats'.levelPoints >= 0
           /\ stats.pc = "getNextLevel.points" /\ stats'.pc # stats.pc =>
                stats'.nextPoints = Max(0, sum) /\ stats'.nextPoints >= 0]_vars

\* a user whose rows sum below zero got 0 while another user holds points
C4_Witness ==
    /\ stats.pc = "getUserLevel.points"
    /\ LedgerSum(pointTransactions, stats.userId) < 0
    /\ stats.totalPoints = 0
    /\ \E u \in Users \ {stats.userId} : LedgerSum(pointTransactions, u) > 0

\* C7: the progressPercent of getUserStats is an integer from 0 to 100, also
\* when totalPoints equals a level's pointsRequired and when the user has no
\* current level, and its division never divides by zero.
C7_PercentInRange ==
    stats.pc = "done" =>
        /\ stats.progressPercent \in 0..100
        /\ ProgressDivisor(stats.currentLevel, stats.nextLevel) # 0

\* a result for a user standing exactly on the threshold of a level
C7_Witness ==
    /\ stats.pc = "done"
    /\ stats.currentLevel # NULL
    /\ stats.nextLevel # NULL
    /\ stats.totalPoints = stats.currentLevel.pointsRequired
    /\ stats.totalPoints > 0

Increasing(lv) ==
    \A x, y \in lv : x.levelNumber < y.levelNumber => x.pointsRequired < y.pointsRequired

\* C8: getUserLevel returns the level with the greatest pointsRequired among
\* the levels whose pointsRequired <= the user's points, null exactly when
\* there is no such level; with thresholds increasing in levelNumber it is
\* the reached level with the greatest levelNumber.
C8_HighestReachedLevel ==
    stats.pc \in AfterLevel =>
        LET reached == {x \in levels : x.pointsRequired <= stats.levelPoints}
            cur == stats.currentLevel
        IN  /\ cur = NULL <=> reached = {}
            /\ cur # NULL =>
                  /\ cur \in reached
                  /\ \A x \in reached : x.pointsRequired <= cur.pointsRequired
                  /\ Increasing(levels) => \A x \in reached : x.levelNumber <= cur.levelNumber

\* a user who has passed two thresholds
C8_Witness ==
    /\ stats.pc \in AfterLevel
    /\ stats.currentLevel # NULL
    /\ Increasing(levels)
    /\ \E x \in levels : x.pointsRequired < stats.currentLevel.pointsRequired

\* C9: getNextLevel returns the level with the smallest pointsRequired among
\* the levels whose pointsRequired > the user's points, null exactly when
\* there is no such level.
C9_LowestLevelAbove ==
    stats.pc \in AfterNext =>
        LET above == {x \in levels : x.pointsRequired > stats.nextPoints}
            next == stats.nextLevel
        IN  /\ next = NULL <=> above = {}
            /\ next # NULL =>
                  /\ next \in above
                  /\ \A x \in above : next.pointsRequired <= x.pointsRequired

\* a user with two thresholds still ahead
C9_Witness ==
    /\ stats.pc \in AfterNext
    /\ stats.nextLevel # NULL
    /\ \E x \in levels : x.pointsRequired > stats.nextLevel.pointsRequired

\* the three reads of the ledger made by one getUserStats call agree
SameReads == stats.totalPoints = stats.levelPoints /\ stats.levelPoints = stats.nextPoints

\* C10: progress is linear within the current level: with both levels present
\* progressPercent = floor(100 * (totalPoints - currentLevel.pointsRequired) /
\* (nextLevel.pointsRequired - currentLevel.pointsRequired)), and 100 when no
\* next level exists; with levels {0 Newcomer, 50 Explorer} a user without
\* transactions gets Newcomer / Explorer / 0 and a user with exactly 50
\* points gets Explorer.
C10_LinearProgress ==
    (stats.pc = "done" /\ SameReads) =>
        LET cur == stats.currentLevel
            next == stats.nextLevel
        IN  /\ (cur # NULL /\ next # NULL) =>
                  stats.progressPercent =
                      (100 * (stats.totalPoints - cur.pointsRequired))
                          \div (next.pointsRequired - cur.pointsRequired)
            /\ next = NULL => stats.progressPercent = 100
            /\ (levels = {[levelNumber |-> 1, pointsRequired |-> 0],
                          [levelNumber |-> 2, pointsRequired |-> 50]}) =>
                  /\ stats.totalPoints = 0 =>
                        /\ cur.levelNumber = 1
                        /\ next.levelNumber = 2
                        /\ stats.progressPercent = 0
                  /\ stats.totalPoints = 50 => cur.levelNumber = 2 /\ next = NULL

(***************************************************************************)
(* Properties of the trigger checks                                        *)
(***************************************************************************)
\* the person a finished or running check of the kind was called for
Checked(kind) ==
    IF caller["req1"].kind = kind /\ call["req1"].pc # "idle"
    THEN FindPerson(persons, caller["req1"].personId)
    ELSE NULL

Finished(kind) == IF call["req1"].pc = "done" THEN Checked(kind) ELSE NULL

Awarded(k) == k \in Range(call["req1"].awarded)

\* the rows of a relation that are not marked deleted
Live(rows) == {n \in 1..Len(rows) : ~rows[n].deleted}

HasNameAndPronouns(x) == x.firstName # "" /\ x.pronouns # ""
HasPhoto(x) == x.imageURL # ""
LiveInterests(x) == Cardinality(Live(x.interests))
LiveContacts(x) == Cardinality(Live(x.contactInformation))
DistinctContactTypes(x) ==
    Cardinality({x.contactInformation[n].type : n \in Live(x.contactInformation)})

Purge(x) ==
    [x EXCEPT !.contactInformation = SelectSeq(@, LAMBDA r : r.deleted = FALSE),
              !.interests = SelectSeq(@, LAMBDA r : r.deleted = FALSE)]

\* C12: in checkProfileAchievements, checkPrivacyAchievements and
\* checkActiveMemberAchievement a contact or interest marked deleted counts
\* for nothing: the keys the check finds satisfied are those it finds for the
\* same person with the deleted rows removed.
C12_DeletedRowsNotCounted ==
    LET profile == Checked("profile")
        privacy == Checked("privacy")
        active == Checked("active")
        keys == call["req1"].keys
    IN  /\ profile # NULL => keys = ProfileKeys(Purge(profile))
        /\ privacy # NULL => keys = PrivacyKeys(Purge(privacy))
        /\ active # NULL =>
              keys = IF ActiveMember(Purge(active)) THEN <<"active_member">> ELSE <<>>

\* a person whose fifth interest and third contact are marked deleted
C12_Witness ==
    LET x == Finished("profile")
    IN  /\ x # NULL
        /\ Len(x.interests) = 5 /\ LiveInterests(x) = 4
        /\ Len(x.contactInformation) = 3 /\ LiveContacts(x) = 2
        /\ Awarded("first_interest") /\ ~Awarded("interests_complete")

TriggerKinds == {"profile", "privacy", "group", "active"}

\* a trigger check was called with a personId that names no person
NoSuchPerson ==
    /\ call["req1"].pc # "idle"
    /\ caller["req1"].kind \in TriggerKinds
    /\ ~\E x \in persons : x.id = caller["req1"].personId

\* C13: a trigger check called with a personId that names no person returns
\* an empty array, raises no error and writes no UserAchievement or
\* PointTransaction row (both tables are empty before the check).
C13_NoPersonNoOp ==
    NoSuchPerson =>
        /\ call["req1"].pc = "done"
        /\ call["req1"].awarded = <<>>
        /\ call["req1"].results = <<>>
        /\ userAchievements = <<>>
        /\ pointTransactions = <<>>

\* checkActiveMemberAchievement has returned for a personId without a person,
\* while a person who would qualify exists under another id
C13_Witness ==
    /\ NoSuchPerson
    /\ caller["req1"].kind = "active"
    /\ call["req1"].pc = "done"
    /\ \E x \in persons : LiveInterests(x) >= 5 /\ LiveContacts(x) >= 3 /\ HasPhoto(x)

AllKeys == {AchievementsData[n].key : n \in 1..Len(AchievementsData)}

IsPrefix(s, t) == Len(s) <= Len(t) /\ \A n \in 1..Len(s) : s[n] = t[n]

\* C14: no step updates or deletes an existing UserAchievement or
\* PointTransaction row, so once hasAchievement(u, k) is true it stays true
\* after every later step, also when interests of the person were deleted
\* since.
C14_EarnedStaysEarned ==
    [][/\ IsPrefix(userAchievements, userAchievements')
       /\ IsPrefix(pointTransactions, pointTransactions')
       /\ \A u \in Users, k \in AllKeys :
             EarnedIn(achievements, userAchievements, u, k) =>
                 EarnedIn(achievements', userAchievements', u, k)]_vars

\* interests_complete is still earned after an interest was deleted and a
\* later profile check has run
C14_Witness ==
    LET x == Finished("profile")
    IN  /\ x # NULL
        /\ ncalls >= 2
        /\ Len(x.interests) = 5 /\ LiveInterests(x) < 5
        /\ Earned(x.userId, "interests_complete")
        /\ Len(pointTransactions) >= 2

\* p and q are two calls for the same (user, achievement), both past the
\* already-earned check and neither has run its transaction
BothPastCheck(p, q) ==
    /\ p # q
    /\ call[p].pc = "transaction" /\ call[q].pc = "transaction"
    /\ call[p].userId = call[q].userId
    /\ call[p].achievement.id = call[q].achievement.id

\* p runs its transaction in this step
Transacts(p) == call[p].pc = "transaction" /\ call'[p] # call[p]

\* C15: when two awardAchievement(u, k) calls have both passed the
\* already-earned check before either inserts, the one whose transaction runs
\* first commits its two rows and returns the achievement; the other one's
\* transaction, running against the committed row, fails, writes no row and
\* ends with an error, not with null.
C15_OneCommitsOtherFails ==
    [][\A p \in Procs :
         Transacts(p) =>
            LET u == call[p].userId
                a == call[p].achievement.id
            IN  /\ (\E q \in Procs : BothPastCheck(p, q)) =>
                       /\ UACount(userAchievements, u, a) = 0
                       /\ UACount(userAchievements', u, a) = 1
                       /\ PTCount(pointTransactions', u, a) = 1
                       /\ Len(userAchievements') = Len(userAchievements) + 1
                       /\ Len(pointTransactions') = Len(pointTransactions) + 1
                       /\ Last(call'[p].results) = "achievement"
                /\ UACount(userAchievements, u, a) > 0 =>
                       /\ userAchievements' = userAchievements
                       /\ pointTransactions' = pointTransactions
                       /\ call'[p].pc = "error"
                       /\ Last(call'[p].results) = "error"]_vars

\* the helper call lost the race against the request: the request holds the
\* achievement, the helper has ended with the error and the pair has one row
C15_Witness ==
    \E i \in 1..Len(call["req1"].results) :
        /\ call["req1"].results[i] = "achievement"
        /\ call["req2"].pc = "error"
        /\ call["req2"].results = <<"error">>
        /\ call["req2"].keys = <<call["req1"].keys[i]>>
        /\ call["req2"].userId = call["req1"].userId
        /\ UACount(userAchievements, call["req2"].userId, call["req2"].achievement.id) = 1
        /\ PTCount(pointTransactions, call["req2"].userId, call["req2"].achievement.id) = 1

\* the check put k on its achievementsToCheck
Satisfied(k) == k \in Range(call["req1"].keys)

LiveContactWith(x, Test(_)) ==
    \E n \in Live(x.contactInformation) : Test(x.contactInformation[n])

\* C16: checkPrivacyAchievements holds first_private_address satisfied
\* exactly when the person has a non-deleted PRIVATE contact of type ADDRESS,
\* and privacy_explorer exactly when the person has a non-deleted PRIVATE
\* contact and a non-deleted PUBLIC contact at once; what it holds satisfied
\* is what it awards the user who has earned nothing yet.
C16_PrivacyPredicates ==
    LET x == Checked("privacy")
        privateAddress ==
            LiveContactWith(x, LAMBDA c : c.type = "ADDRESS" /\ c.privacy = "PRIVATE")
        privateAndPublic ==
            /\ LiveContactWith(x, LAMBDA c : c.privacy = "PRIVATE")
            /\ LiveContactWith(x, LAMBDA c : c.privacy = "PUBLIC")
    IN  x # NULL =>
           /\ Satisfied("first_private_address") <=> privateAddress
           /\ Satisfied("privacy_explorer") <=> privateAndPublic
           /\ call["req1"].pc = "done" =>
                 /\ Awarded("first_private_address") <=> privateAddress
                 /\ Awarded("privacy_explorer") <=> privateAndPublic

\* a person whose only PRIVATE contact is a deleted address, beside two
\* public contacts, was checked and got neither achievement
C16_Witness ==
    LET x == Finished("privacy")
    IN  /\ x # NULL
        /\ \E n \in 1..Len(x.contactInformation) :
              /\ x.contactInformation[n].deleted
              /\ x.contactInformation[n].type = "ADDRESS"
              /\ x.contactInformation[n].privacy = "PRIVATE"
        /\ LiveContacts(x) = 2
        /\ call["req1"].awarded = <<>>
        /\ pointTransactions = <<>>

LiveMembershipWith(x, Test(_)) ==
    \E n \in Live(x.groupMemberships) : Test(x.groupMemberships[n])

\* C17: checkGroupAchievements holds first_group_join satisfied exactly when
\* the person has a membership in a non-deleted group, and group_admin
\* exactly when the person is admin in a non-deleted group; memberships of
\* deleted groups never count.
C17_GroupPredicates ==
    LET x == Checked("group")
        member == LiveMembershipWith(x, LAMBDA m : TRUE)
        admin == LiveMembershipWith(x, LAMBDA m : m.isAdmin)
    IN  x # NULL =>
           /\ Satisfied("first_group_join") <=> member
           /\ Satisfied("group_admin") <=> admin
           /\ call["req1"].pc = "done" =>
                 /\ Awarded("first_group_join") <=> member
                 /\ Awarded("group_admin") <=> admin

\* the admin of a deleted group who is a plain member of another group got
\* first_group_join alone
C17_Witness ==
    LET x == Finished("group")
    IN  /\ x # NULL
        /\ \E n \in 1..Len(x.groupMemberships) :
              x.groupMemberships[n].deleted /\ x.groupMemberships[n].isAdmin
        /\ call["req1"].awarded = <<"first_group_join">>
        /\ Len(userAchievements) = 1

LiveGroups(x) == Cardinality(Live(x.groupMemberships))

\* the three parts checkActiveMemberAchievement asks for; the complete
\* profile is first name, pronouns, photo and 3 non-deleted contact rows
ThreeParts(x) ==
    /\ HasNameAndPronouns(x) /\ HasPhoto(x) /\ LiveContacts(x) >= 3
    /\ LiveGroups(x) >= 2
    /\ LiveInterests(x) >= 5

\* C18: checkActiveMemberAchievement awards active_member only when the
\* person has a complete profile, is in at least 2 non-deleted groups and has
\* at least 5 non-deleted interests, all at once; when a part fails it
\* returns an empty array, calls no award and writes nothing.
C18_ActiveMemberComposite ==
    LET x == Checked("active")
    IN  x # NULL =>
           /\ (Satisfied("active_member") \/ Awarded("active_member")) => ThreeParts(x)
           /\ ~ThreeParts(x) =>
                 /\ call["req1"] = [Idle EXCEPT !.pc = "done"]
                 /\ userAchievements = <<>>
                 /\ pointTransactions = <<>>

\* active_member was awarded to a person with all three parts
C18_Witness ==
    LET x == Finished("active")
    IN  /\ x # NULL
        /\ ThreeParts(x)
        /\ call["req1"].awarded = <<"active_member">>
        /\ Len(pointTransactions) = 1
        /\ pointTransactions[1].points = 35

RECURSIVE AwardedTo(_, _)
\* the keys the responses rs carry for user u, in the order sent
AwardedTo(rs, u) ==
    IF rs = <<>> THEN <<>>
    ELSE (IF Head(rs).userId = u THEN Head(rs).awarded ELSE <<>>) \o AwardedTo(Tail(rs), u)

RECURSIVE RowKeys(_, _)
\* the keys of the achievements of u's UserAchievement rows, in insertion order
RowKeys(uas, u) ==
    IF uas = <<>> THEN <<>>
    ELSE (IF Head(uas).userId = u
          THEN <<(CHOOSE a \in achievements : a.id = Head(uas).achievementId).key>>
          ELSE <<>>) \o RowKeys(Tail(uas), u)

\* the keys awarded so far by the request being served, if it is u's
InFlightTo(u) == IF call["req1"].userId = u THEN call["req1"].awarded ELSE <<>>

\* C19: POST /achievements/check answers 400 whenever achievementKeys is not
\* an array, and only then, and such a request writes no row; the answer to an array
\* carries exactly the keys the request newly awarded: the rows of a user are
\* at any time those the answers to the user's requests have named plus those
\* of the request in progress, and each row has its ledger row.
C19_RouteValidatesBody ==
    /\ \A n \in 1..Len(responses) :
          /\ responses[n].body.type # "array" => responses[n].status = 400
          /\ responses[n].status = 400 => responses[n].body.type # "array"
          /\ responses[n].status = 400 =>
                ~responses[n].success /\ responses[n].awarded = <<>>
          /\ responses[n].status = 200 =>
                /\ responses[n].success
                /\ \E f \in [1..Len(responses[n].awarded) -> 1..Len(responses[n].body.items)] :
                      /\ \A i \in 1..Len(responses[n].awarded) :
                            responses[n].body.items[f[i]] = responses[n].awarded[i]
                      /\ \A i \in 1..(Len(responses[n].awarded) - 1) : f[i] < f[i + 1]
    /\ \A u \in Users :
          RowKeys(userAchievements, u) = AwardedTo(responses, u) \o InFlightTo(u)
    /\ Len(pointTransactions) = Len(userAchievements)

\* a request with a string was refused after a request with an array was
\* answered with the key it awarded; the one row is that of the first request
C19_Witness ==
    /\ Len(responses) = 2
    /\ responses[1].status = 200 /\ responses[1].awarded # <<>>
    /\ responses[2].status = 400 /\ responses[2].body.type = "string"
    /\ responses[2].userId = responses[1].userId
    /\ Len(userAchievements) = Len(responses[1].awarded)

\* the letters of an address in capitals
Capitals(email) ==
    [i \in 1..Len(email) |-> IF email[i] \in 97..122 THEN email[i] - 32 ELSE email[i]]

\* two spellings of one address, compared without regard to case
SameAddress(e, f) == Capitals(e) = Capitals(f)

\* the calls for the address of call n that returned true
AllowedFor(n) ==
    {m \in 1..Len(checks) : checks[m].allowed /\ SameAddress(checks[m].email, checks[n].email)}

\* C20: for every address, compared without regard to case, no more than 3
\* calls of checkEmailRateLimit return true within a window shorter than 15
\* minutes, and a call returns false exactly when 3 allowed attempts for its
\* address are less than 15 minutes old.
C20_ThreePerWindow ==
    \A n \in 1..Len(checks) :
        LET young == {m \in AllowedFor(n) : m < n /\ checks[n].at - checks[m].at < WINDOW_MS}
        IN  /\ \A m \in 1..n : checks[m].at <= checks[n].at
            /\ checks[n].allowed =>
                  Cardinality({m \in AllowedFor(n) :
                                  m <= n /\ checks[n].at - checks[m].at < WINDOW_MS}) <= 3
            /\ ~checks[n].allowed <=> Cardinality(young) = 3
            /\ Cardinality(young) <= 3

\* three calls for one address in two spellings were allowed and the fourth
\* was refused in the last millisecond of the window of the first
C20_Witness ==
    /\ Len(checks) = 4
    /\ \A n \in 1..4 : SameAddress(checks[n].email, checks[1].email)
    /\ \E n \in 1..3 : checks[n].email # checks[1].email
    /\ \A n \in 1..3 : checks[n].allowed
    /\ ~checks[4].allowed
    /\ checks[4].at - checks[1].at = WINDOW_MS - 1

\* the request got past the token check: its updateMany matched
PastTokenCheck(r) == verify[r].count > 0

\* the row of the table with that token, if any
LinkOf(token) ==
    {n \in 1..Len(authenticationAttempts) : authenticationAttempts[n].token = token}

\* C21: a sign-in token is accepted at most once and only while unused and
\* not expired: of the requests that carry one token, overlapping in any
\* way, at most one gets past the token check and at most one logs in; a
\* request got past the check only with an issued token, not later than its
\* expiry, and every request that ended without getting past it, whether the
\* token was taken, expired, used, unknown or missing, was answered 400.
C21_TokenAcceptedOnce ==
    /\ \A r, q \in VerifyProcs :
          (r # q /\ verify[r].token = verify[q].token) =>
              ~(PastTokenCheck(r) /\ PastTokenCheck(q))
    /\ \A r \in VerifyProcs :
          /\ PastTokenCheck(r) =>
                /\ verify[r].count = 1
                /\ \E n \in LinkOf(verify[r].token) :
                      /\ authenticationAttempts[n].used
                      /\ verify[r].at <= authenticationAttempts[n].expiresAt
          /\ verify[r].status = 200 => PastTokenCheck(r)
          /\ (verify[r].pc = "done" /\ ~PastTokenCheck(r)) => verify[r].status = 400
          /\ (verify[r].pc = "done" /\ verify[r].at > LinkLifetime) => verify[r].status = 400

\* two requests with the token of the link: one is logged in, the other one
\* made its token check in time and was answered 400
C21_Witness ==
    /\ verify["v1"].token = 1 /\ verify["v2"].token = 1
    /\ verify["v1"].status = 200
    /\ verify["v2"].status = 400
    /\ verify["v2"].at <= LinkLifetime
    /\ verify["v2"].at > 0

AnswersOf(route) == {a \in answers : a.route = route}

\* C22: the response of POST /send-magic-link is the same, success true and
\* one message, whether no non-deleted user has the address, the user is not
\* verified yet, the address is rate limited, or a link was created and the
\* e-mail went out or failed.
C22_SameSignInResponse ==
    \A a, b \in AnswersOf("send-magic-link") :
        /\ a.success /\ b.success
        /\ a.message = b.message

\* the same response was given to an address without user, to the user
\* waiting for verification, and to the verified user when the link was
\* mailed, when the e-mail failed and when the address was rate limited
C22_Witness ==
    LET sent == AnswersOf("send-magic-link")
    IN  /\ \E a \in sent : ~a.registered
        /\ \E a \in sent : a.email = OtherEmail /\ a.registered
        /\ \E a \in sent : a.email = AccountEmail /\ a.mailed
        /\ \E a \in sent : a.email = AccountEmail /\ ~a.mailed
        /\ Len(authenticationAttempts) = 3
        /\ \E n \in 1..Len(checks) : ~checks[n].allowed /\ checks[n].email = AccountEmail

\* C23: the response of POST /resend-verification does not tell whether a
\* user exists: two requests of which one is for the address of a
\* non-deleted user and the other for an address without receive the same
\* response.
C23_SameResendResponse ==
    \A a, b \in AnswersOf("resend-verification") :
        a.registered # b.registered =>
            /\ a.success = b.success
            /\ a.message = b.message

\* the predicate that earns key k, over the rows of person x
KeySatisfied(x, k) ==
    CASE k = "profile_basics" -> HasNameAndPronouns(x)
      [] k = "profile_photo" -> HasPhoto(x)
      [] k = "first_interest" -> LiveInterests(x) >= 1
      [] k = "interests_complete" -> LiveInterests(x) >= 5
      [] k = "profile_complete" ->
            HasNameAndPronouns(x) /\ HasPhoto(x) /\ LiveContacts(x) >= 3 /\ LiveInterests(x) >= 5
      [] k = "contact_sharer" -> DistinctContactTypes(x) >= 3
      [] k = "first_private_address" ->
            LiveContactWith(x, LAMBDA c : c.type = "ADDRESS" /\ c.privacy = "PRIVATE")
      [] k = "privacy_explorer" ->
            /\ LiveContactWith(x, LAMBDA c : c.privacy = "PRIVATE")
            /\ LiveContactWith(x, LAMBDA c : c.privacy = "PUBLIC")
      [] k = "first_group_join" -> LiveMembershipWith(x, LAMBDA m : TRUE)
      [] k = "group_admin" -> LiveMembershipWith(x, LAMBDA m : m.isAdmin)
      [] k = "active_member" -> ThreeParts(x)
      [] OTHER -> FALSE

\* the rows uas hold one of user u for the achievement with key k
HoldsRow(uas, u, k) ==
    \E i \in 1..Len(uas) :
        /\ uas[i].userId = u
        /\ \E a \in achievements : a.key = k /\ a.id = uas[i].achievementId

\* C24: a trigger check called again with no change to the persisted state
\* since its last call returns an empty array and writes no row, and each
\* key a call returns was satisfied by the person's rows and not yet earned
\* when the call began to award it.
C24_SecondCallEmpty ==
    [][LET c == call["req1"]
           d == call'["req1"]
           x == FindPerson(persons, caller["req1"].personId)
       IN  /\ (InAward("req1") /\ Len(d.awarded) > Len(c.awarded)) =>
                 /\ x # NULL
                 /\ KeySatisfied(x, Last(d.awarded))
                 /\ ~HoldsRow(userAchievements, c.userId, Last(d.awarded))
                 /\ HoldsRow(userAchievements', c.userId, Last(d.awarded))
           /\ ncalls >= 2 =>
                 /\ userAchievements' = userAchievements
                 /\ pointTransactions' = pointTransactions
           /\ (ncalls' >= 2 /\ d.pc = "done") => d.awarded = <<>>]_vars

\* the profile check has returned from its second call with nothing, after
\* its first call awarded three keys or more
C24_Witness ==
    /\ ncalls = 2
    /\ caller["req1"].kind = "profile"
    /\ call["req1"].pc = "done"
    /\ call["req1"].awarded = <<>>
    /\ Len(call["req1"].keys) >= 3
    /\ Len(userAchievements) = Len(call["req1"].keys)
    /\ Len(pointTransactions) = Len(userAchievements)

\* C25: the result of getUserStats is consistent with itself: with both
\* levels present, currentLevel.pointsRequired <= totalPoints <
\* nextLevel.pointsRequired and no level lies strictly between the two, also
\* when an award for the user commits between the reads of the ledger.
C25_StatsConsistent ==
    (stats.pc = "done" /\ stats.currentLevel # NULL /\ stats.nextLevel # NULL) =>
        /\ stats.currentLevel.pointsRequired <= stats.totalPoints
        /\ stats.totalPoints < stats.nextLevel.pointsRequired
        /\ ~\E x \in levels :
              /\ stats.currentLevel.pointsRequired < x.pointsRequired
              /\ x.pointsRequired < stats.nextLevel.pointsRequired

\* the entries of getUserAchievements(u) with completed = true
CompletedEntries(u) ==
    {e \in getUserAchievements(achievements, userAchievements, u) : e.completed}

\* C27: after any sequence of awards getUserStats returns
\* completedAchievementCount <= achievementCount, and the
\* completedAchievementCount it reads is the number of entries of
\* getUserAchievements for the same user with completed = true.
C27_CompletedCount ==
    [][(stats.pc = "completed" /\ stats'.pc = "done") =>
          /\ stats'.completedAchievementCount <= stats'.achievementCount
          /\ stats'.completedAchievementCount = Cardinality(CompletedEntries(stats.userId))]_vars

\* the dashboard of a user who earned both achievements, read after another
\* user earned them too
C27_Witness ==
    /\ stats.pc = "done"
    /\ stats.completedAchievementCount = 2
    /\ stats.achievementCount = 2
    /\ Len(userAchievements) = 4
    /\ Cardinality(CompletedEntries(stats.userId)) = 2

\* the keys of the list, in its order, that are existing, active
\* achievements and neither earned before nor earlier in the list
RECURSIVE FirstEligible(_, _)
FirstEligible(items, earned) ==
    IF items = <<>> THEN <<>>
    ELSE IF ActiveKey(Head(items)) /\ Head(items) \notin earned
         THEN <<Head(items)>> \o FirstEligible(Tail(items), earned \cup {Head(items)})
         ELSE FirstEligible(Tail(items), earned)

\* the keys that the answers before answer n told the same user were awarded
EarnedBefore(n) ==
    UNION { Range(responses[m].awarded) :
              m \in {x \in 1..(n - 1) : responses[x].userId = responses[n].userId} }

\* C26: POST /achievements/check awards to the authenticated user every
\* listed key that exists, is active and is not yet earned, and no other;
\* what it awards is a function of the list, of the achievements table and
\* of what the user earned before, whatever the user's person, contacts,
\* interests and groups are.
C26_AwardsWhatIsListed ==
    \A n \in 1..Len(responses) :
        responses[n].status = 200 =>
            /\ responses[n].awarded = FirstEligible(responses[n].body.items, EarnedBefore(n))
            /\ \A k \in Range(responses[n].awarded) :
                  HoldsRow(userAchievements, responses[n].userId, k)

\* group_admin was awarded through the route to a user whose person is in
\* no group, and to nobody's surprise the predicate of the key does not hold
C26_Witness ==
    /\ Len(responses) >= 1
    /\ responses[1].status = 200
    /\ "group_admin" \in Range(responses[1].awarded)
    /\ \E x \in persons :
          /\ x.userId = responses[1].userId
          /\ x.groupMemberships = <<>>
          /\ ~KeySatisfied(x, "group_admin")

\* the keys of the list for which awardAchievement returned the achievement
RECURSIVE AwardedOf(_, _)
AwardedOf(keys, results) ==
    IF results = <<>> THEN <<>>
    ELSE (IF Head(results) = "achievement" THEN <<Head(keys)>> ELSE <<>>)
             \o AwardedOf(Tail(keys), Tail(results))

\* a call that has failed stopped at the key that raised the error
FailedAtKey(p) ==
    call[p].pc = "error" =>
        LET c == call[p]
        IN  /\ c.i \in 1..Len(c.keys)
            /\ Len(c.results) = c.i
            /\ Last(c.results) = "error"
            /\ \A n \in 1..(c.i - 1) : c.results[n] # "error"
            /\ c.awarded = AwardedOf(c.keys, c.results)
            /\ \A k \in Range(c.awarded) : HoldsRow(userAchievements, c.userId, k)

\* the step at which awardAchievement raises the error ends the call, and
\* a call that has failed does nothing more
FailsWhole(p) ==
    /\ (Transacts(p) /\ UACount(userAchievements, call[p].userId, call[p].achievement.id) > 0) =>
          /\ call'[p].pc = "error"
          /\ call'[p].i = call[p].i
          /\ call'[p].awarded = call[p].awarded
          /\ userAchievements' = userAchievements
          /\ pointTransactions' = pointTransactions
    /\ (call[p].pc = "error" /\ call'[p] # call[p]) =>
          call'[p].results = <<>> /\ call'[p].awarded = <<>>

\* C28: if awardAchievement raises an error for one key, the whole
\* checkAndAwardMultiple call fails with it: the keys awarded earlier in the
\* list stay awarded, the keys later in the list are not attempted, and no
\* list of awarded keys is returned.
C28_ErrorFailsWholeCall ==
    /\ [](\A p \in Procs : FailedAtKey(p))
    /\ [][\A p \in Procs : FailsWhole(p)]_vars

\* the request was awarded its first key and failed at its second, which
\* the helper call had committed in between
C28_Witness ==
    /\ call["req1"].pc = "error"
    /\ Len(call["req1"].keys) = 2
    /\ call["req1"].results = <<"achievement", "error">>
    /\ call["req1"].awarded = <<call["req1"].keys[1]>>
    /\ HoldsRow(userAchievements, call["req1"].userId, call["req1"].keys[1])
    /\ HoldsRow(userAchievements, call["req1"].userId, call["req1"].keys[2])

\* the instants, seen from the latest call, at which a later call may come
Later == {now + d : d \in Delays \cup {WINDOW_MS}}

\* a call of checkEmailRateLimit that returns false leaves the recorded
\* attempts of its address as they were, less those that left the window;
\* with 3 attempts recorded a call is allowed exactly when the oldest is 15
\* minutes old or older
CallRecords ==
    Len(checks') > Len(checks) =>
        LET e == Last(checks')
            old == Get(attempts, toLowerCase(e.email))
            new == Get(attempts', toLowerCase(e.email))
        IN  /\ ~e.allowed => new = Recent(old, e.at) /\ Len(new) = MAX_PER_WINDOW
            /\ e.allowed => new = Append(Recent(old, e.at), e.at)
            /\ Len(old) = MAX_PER_WINDOW => (e.allowed <=> e.at - old[1] >= WINDOW_MS)
            /\ Len(new) <= MAX_PER_WINDOW

\* a run of the cleanup changes neither what a later call returns nor the
\* attempts that call leaves recorded for its address
CleanupUnseen ==
    (checks' = checks /\ attempts' # attempts) =>
        \A email \in Emails, at \in Later :
            /\ Limit(attempts', email, at).allowed = Limit(attempts, email, at).allowed
            /\ Get(Limit(attempts', email, at).attempts, toLowerCase(email))
                 = Get(Limit(attempts, email, at).attempts, toLowerCase(email))

\* C29: a rejected checkEmailRateLimit call records no attempt: after 3
\* allowed attempts for an address the next attempt is allowed as soon as
\* the oldest of the 3 recorded attempts is 15 minutes old, however many
\* rejected attempts were made in between, and the periodic cleanup never
\* changes the result of a later call.
C29_RefusedNotRecorded ==
    [][CallRecords /\ CleanupUnseen]_vars

\* after three attempts at time 0 the address was refused twice, the second
\* time 1 ms before the window of the three ended, and allowed 1 ms later
C29_Witness ==
    /\ Len(checks) = 3
    /\ \A n \in 1..3 : SameAddress(checks[n].email, <<97, 64>>)
    /\ ~checks[1].allowed /\ ~checks[2].allowed /\ checks[3].allowed
    /\ checks[2].at = WINDOW_MS - 1
    /\ checks[3].at = WINDOW_MS
    /\ Get(attempts, <<97, 64>>) = <<WINDOW_MS>>

====
